---- MODULE Spec2Model ----
(***************************************************************************)
(* cors-diagnoser: the Express middleware (corsDiagnoser, ErrorHistory),   *)
(* the analyzer (analyzeHeaders), the pattern catalog (detectPattern) and  *)
(* the security advisor (checkSecurity).                                   *)
(*                                                                         *)
(* Strings are sequences of tokens (each token a substring that the string *)
(* operations of the code never split): "https://a.com/" is                *)
(* <<"https://", "a.com", "/">>.                                           *)
(***************************************************************************)
EXTENDS Integers, Sequences, FiniteSets, TLC

VARIABLES
    errorHistory,   \* the module-level ErrorHistory instance, or NoHistory (null)
    middlewares,    \* the options of the middlewares created by corsDiagnoser
    cur,            \* the request in flight through a corsMiddleware (or NoReq)
    nreq,           \* number of requests started
    clock,          \* the value new Date() returns
    addLog,         \* keys passed to ErrorHistory.add since construction / clear
    lastLogged,     \* what the analysis of the request in flight wrote to the log
    escaped,        \* an exception reached the caller of res.send / res.json / 'finish'
    nextCalls,      \* how often the corsMiddleware invocation of the last step called next()
    pin,            \* input of a pure function call (request/response pair)
    pphase,         \* which pure functions have been applied to pin
    analysis,       \* result of analyzeHeaders(pin)
    pattern,        \* result of detectPattern(pin)
    pout,           \* result of checkSecurity, testOrigin, compareConfiguration or normalizeOrigin on pin
    hasWindow,      \* typeof window !== "undefined"
    windowListeners,  \* the "error" listeners registered on window
    errorListener,  \* the module's reference to its listener (or NoListener for null)
    isListening,    \* the module's isListening flag
    corsErrorHistory, \* the browser listener's array of captured errors
    handlerLog,     \* the records handed to a custom handler
    listenerEscaped,  \* an exception left the error listener
    consoleLast,    \* the last message the browser listener wrote to the console
    dispatched      \* number of error events dispatched on window

mwVars == <<errorHistory, middlewares, cur, nreq, clock, addLog, lastLogged, escaped, nextCalls>>

pureVars == <<pin, pphase, analysis, pattern, pout>>

browserVars ==
    <<hasWindow, windowListeners, errorListener, isListening, corsErrorHistory, handlerLog,
      listenerEscaped, consoleLast, dispatched>>

vars == <<mwVars, pureVars, browserVars>>

(***************************************************************************)
(* Bounds of the model.                                                    *)
(***************************************************************************)
MaxRequests == 3

MaxClock == 1

(***************************************************************************)
(* Strings and JavaScript values.                                          *)
(***************************************************************************)
\* undefined: what Map.get returns for an absent header
Undefined == <<"#undefined">>

\* a header value that is a (non-zero) number, as OutgoingHttpHeaders allows
NumVal == <<"#number">>

EmptyStr == <<>>

IsNumber(v) == v = NumVal

\* JavaScript truthiness of a header value
Truthy(v) == v # Undefined /\ v # EmptyStr

Star == <<"*">>

TrueStr == <<"true">>

NullStr == <<"null">>

OriginA == <<"https://", "a.com">>

OriginAUpper == <<"HTTPS://", "A.COM", "/">>

OriginB == <<"https://", "b.com">>

OriginAPort == <<"https://", "a.com", ":", "3000">>

OriginList == <<"https://", "a.com", ",", " ", "https://", "b.com">>

\* String.prototype.toLowerCase on one token
LowerTok(t) ==
    CASE t = "HTTPS://" -> "https://"
      [] t = "HTTP://" -> "http://"
      [] t = "A.COM" -> "a.com"
      [] t = "B.COM" -> "b.com"
      [] t = "A" -> "a"
      [] t = "Authorization" -> "authorization"
      [] t = "X-Total" -> "x-total"
      [] t = "GET" -> "get"
      [] t = "POST" -> "post"
      [] t = "DELETE" -> "delete"
      [] t = "CORS" -> "cors"
      [] t = "Cross-Origin" -> "cross-origin"
      [] t = "Blocked" -> "blocked"
      [] t = "Unblocked" -> "unblocked"
      [] OTHER -> t

\* String.prototype.toUpperCase on one token
UpperTok(t) ==
    CASE t = "https://" -> "HTTPS://"
      [] t = "http://" -> "HTTP://"
      [] t = "a.com" -> "A.COM"
      [] t = "b.com" -> "B.COM"
      [] t = "a" -> "A"
      [] t = "get" -> "GET"
      [] t = "post" -> "POST"
      [] t = "delete" -> "DELETE"
      [] OTHER -> t

ToLowerCase(s) == [i \in 1..Len(s) |-> LowerTok(s[i])]

ToUpperCase(s) == [i \in 1..Len(s) |-> UpperTok(s[i])]

RECURSIVE TrimStart(_)
TrimStart(s) ==
    IF Len(s) > 0 /\ s[1] = " " THEN TrimStart(Tail(s)) ELSE s

RECURSIVE TrimEnd(_)
TrimEnd(s) ==
    IF Len(s) > 0 /\ s[Len(s)] = " " THEN TrimEnd(SubSeq(s, 1, Len(s) - 1)) ELSE s

\* String.prototype.trim
Trim(s) == TrimEnd(TrimStart(s))

\* String.prototype.includes for a one-token needle
Includes(s, tok) == \E i \in 1..Len(s) : s[i] = tok

\* String.prototype.split for a one-token separator
RECURSIVE Split(_, _)
Split(s, sep) ==
    IF ~Includes(s, sep) THEN <<s>>
    ELSE LET i == CHOOSE k \in 1..Len(s) : s[k] = sep /\ \A j \in 1..(k - 1) : s[j] # sep
         IN <<SubSeq(s, 1, i - 1)>> \o Split(SubSeq(s, i + 1, Len(s)), sep)

\* Array.prototype.join(", ") of a list of strings
RECURSIVE JoinComma(_)
JoinComma(list) ==
    IF Len(list) = 0 THEN <<>>
    ELSE IF Len(list) = 1 THEN list[1]
    ELSE list[1] \o <<",", " ">> \o JoinComma(Tail(list))

\* String.prototype.endsWith("/"): the last token is a slash or a scheme
EndsWithSlash(s) == Len(s) > 0 /\ s[Len(s)] \in {"/", "https://", "http://"}

\* String.prototype.slice(0, -1) of a string that ends with "/"
SliceLastSlash(s) ==
    LET init == SubSeq(s, 1, Len(s) - 1)
        last == s[Len(s)]
    IN CASE last = "/" -> init
         [] last = "https://" -> Append(init, "https:/")
         [] last = "http://" -> Append(init, "http:/")

normalizeOrigin(origin) ==
    IF ~Truthy(origin) THEN EmptyStr
    ELSE LET normalized == ToLowerCase(Trim(origin))
         IN IF EndsWithSlash(normalized)
            THEN SliceLastSlash(normalized)
            ELSE normalized

(***************************************************************************)
(* Header maps.                                                            *)
(***************************************************************************)
ReqHeaderNames == {"origin", "access-control-request-method", "access-control-request-headers", "cookie"}

ResHeaderNames ==
    {"access-control-allow-origin", "access-control-allow-credentials",
     "access-control-allow-methods", "access-control-allow-headers",
     "access-control-expose-headers", "access-control-max-age"}

\* parseHeaders: undefined and falsy values get no entry
parseHeaders(headers) ==
    [k \in DOMAIN headers |-> IF Truthy(headers[k]) THEN headers[k] ELSE Undefined]

\* Map.prototype.has on a parsed header map
Has(view, k) == view[k] # Undefined

isPreflightRequest(req) ==
    IF req.method # "OPTIONS" THEN FALSE
    ELSE LET headers == parseHeaders(req.headers)
         IN Has(headers, "access-control-request-method") \/ Has(headers, "access-control-request-headers")

(***************************************************************************)
(* URL parsing (WHATWG URL, as far as port-mismatch reads it): a string    *)
(* parses iff it is scheme://host, optionally followed by :port and by /.  *)
(***************************************************************************)
IsScheme(t) == LowerTok(t) \in {"https://", "http://"}

IsHost(t) == LowerTok(t) \in {"a.com", "b.com"}

UrlOk(s) ==
    /\ ~IsNumber(s)
    /\ LET t == Trim(s)
           body == IF Len(t) > 0 /\ t[Len(t)] = "/" THEN SubSeq(t, 1, Len(t) - 1) ELSE t
       IN /\ Len(body) \in {2, 4}
          /\ IsScheme(body[1])
          /\ IsHost(body[2])
          /\ Len(body) = 4 => (body[3] = ":" /\ body[4] \in {"3000", "5000"})

UrlHostname(s) == LowerTok(Trim(s)[2])

UrlPort(s) ==
    LET t == Trim(s)
    IN IF Len(t) >= 4 /\ t[3] = ":" THEN t[4] ELSE ""

(***************************************************************************)
(* The pattern catalog.  A detector yields "true", "false" or "throw".     *)
(***************************************************************************)
Bool3(b) == IF b THEN "true" ELSE "false"

\* the catalog with the two entries for a missing header moved to the front
PatternIdsMissingFirst ==
    <<"missing-allow-headers", "missing-allow-methods",
      "wildcard-credentials-conflict", "multiple-origins-misconfiguration",
      "preflight-only-failure", "custom-headers-not-allowed", "missing-allow-origin",
      "credentials-mismatch", "origin-null-blocked", "port-mismatch">>

PatternIds ==
    <<"wildcard-credentials-conflict", "multiple-origins-misconfiguration",
      "preflight-only-failure", "custom-headers-not-allowed", "missing-allow-origin",
      "missing-allow-headers", "missing-allow-methods", "credentials-mismatch",
      "origin-null-blocked", "port-mismatch">>

NoPattern == "null"

\* the name field of the catalog entries
PatternName(id) ==
    CASE id = "wildcard-credentials-conflict" -> "Wildcard Origin with Credentials Conflict"
      [] id = "multiple-origins-misconfiguration" -> "Multiple Origins Misconfiguration"
      [] id = "preflight-only-failure" -> "Preflight Request Failure"
      [] id = "custom-headers-not-allowed" -> "Custom Headers Not Allowed"
      [] id = "missing-allow-origin" -> "Missing Access-Control-Allow-Origin"
      [] id = "missing-allow-headers" -> "Missing Access-Control-Allow-Headers on Preflight"
      [] id = "missing-allow-methods" -> "Missing Access-Control-Allow-Methods on Preflight"
      [] id = "credentials-mismatch" -> "Credentials Mode Mismatch"
      [] id = "origin-null-blocked" -> "Origin 'null' Blocked"
      [] id = "port-mismatch" -> "Same Domain Different Port Blocked"

detector(id, req, res) ==
    LET reqHeaders == parseHeaders(req.headers)
        resHeaders == parseHeaders(res.headers)
        origin == reqHeaders["origin"]
        allowOrigin == resHeaders["access-control-allow-origin"]
        allowCredentials == resHeaders["access-control-allow-credentials"]
        requestedHeaders == reqHeaders["access-control-request-headers"]
        allowedHeaders == resHeaders["access-control-allow-headers"]
        allowMethods == resHeaders["access-control-allow-methods"]
    IN CASE id = "wildcard-credentials-conflict" ->
              Bool3(allowOrigin = Star /\ allowCredentials = TrueStr)
         [] id = "multiple-origins-misconfiguration" ->
              \* allowOrigin.includes(",") on a number is a TypeError
              IF ~Truthy(allowOrigin) THEN "false"
              ELSE IF IsNumber(allowOrigin) THEN "throw"
              ELSE Bool3(Includes(allowOrigin, ","))
         [] id = "preflight-only-failure" ->
              IF ~isPreflightRequest(req) THEN "false"
              ELSE Bool3(~Has(resHeaders, "access-control-allow-origin")
                         \/ ~Has(resHeaders, "access-control-allow-methods"))
         [] id = "custom-headers-not-allowed" ->
              IF ~isPreflightRequest(req) THEN "false"
              ELSE Bool3(Truthy(requestedHeaders) /\ ~Truthy(allowedHeaders))
         [] id = "missing-allow-origin" ->
              Bool3(Truthy(origin) /\ ~Truthy(allowOrigin))
         [] id = "missing-allow-headers" ->
              IF ~isPreflightRequest(req) THEN "false"
              ELSE Bool3(Truthy(requestedHeaders) /\ ~Truthy(allowedHeaders))
         [] id = "missing-allow-methods" ->
              IF ~isPreflightRequest(req) THEN "false"
              ELSE Bool3(~Truthy(allowMethods))
         [] id = "credentials-mismatch" ->
              Bool3(Has(reqHeaders, "cookie") /\ allowCredentials # TrueStr)
         [] id = "origin-null-blocked" ->
              Bool3(origin = NullStr /\ allowOrigin # NullStr /\ allowOrigin # Star)
         [] id = "port-mismatch" ->
              IF ~Truthy(origin) \/ ~Truthy(allowOrigin) \/ allowOrigin = Star THEN "false"
              \* new URL(...) throwing is caught inside the detector
              ELSE IF ~UrlOk(origin) \/ ~UrlOk(allowOrigin) THEN "false"
              ELSE Bool3(UrlHostname(origin) = UrlHostname(allowOrigin)
                         /\ UrlPort(origin) # UrlPort(allowOrigin))

\* the loop of detectPattern from catalog index i on
RECURSIVE ScanFrom(_, _, _)
ScanFrom(i, req, res) ==
    IF i > Len(PatternIds) THEN NoPattern
    ELSE IF detector(PatternIds[i], req, res) = "true" THEN PatternIds[i]
    ELSE ScanFrom(i + 1, req, res)

\* mutant: a throwing detector aborts the scan
RECURSIVE ScanAbortOnThrow(_, _, _)
ScanAbortOnThrow(i, req, res) ==
    IF i > Len(PatternIds) THEN NoPattern
    ELSE IF detector(PatternIds[i], req, res) = "true" THEN PatternIds[i]
    ELSE IF detector(PatternIds[i], req, res) = "throw" THEN NoPattern
    ELSE ScanAbortOnThrow(i + 1, req, res)

detectPatternAbortOnThrow(req, res) == ScanAbortOnThrow(1, req, res)

detectPattern(req, res) == ScanFrom(1, req, res)

(***************************************************************************)
(* The security advisor.                                                   *)
(***************************************************************************)
\* an optional list property that is undefined
NoList == <<Undefined>>

OriginStr(s) == [type |-> "string", val |-> s, list |-> <<>>]

OriginBool(b) == [type |-> "boolean", val |-> IF b THEN TrueStr ELSE <<"false">>, list |-> <<>>]

OriginArr(a) == [type |-> "array", val |-> <<>>, list |-> a]

SENSITIVE_HEADERS ==
    {"authorization", "cookie", "set-cookie", "x-csrf-token", "x-xsrf-token",
     "x-api-key", "x-auth-token", "x-access-token", "x-refresh-token"}

POTENTIALLY_DANGEROUS_METHODS == {"DELETE", "PUT", "PATCH", "TRACE"}

severityOrder(level) == CASE level = "critical" -> 0 [] level = "warning" -> 1 [] level = "info" -> 2

\* Array.prototype.sort (stable) with the comparator of checkSecurity: insertion from the left
RECURSIVE InsertBySeverity(_, _)
InsertBySeverity(sorted, x) ==
    IF Len(sorted) = 0 THEN <<x>>
    ELSE IF severityOrder(sorted[Len(sorted)].level) <= severityOrder(x.level) THEN Append(sorted, x)
    ELSE Append(InsertBySeverity(SubSeq(sorted, 1, Len(sorted) - 1), x), sorted[Len(sorted)])

RECURSIVE SortBySeverity(_)
SortBySeverity(issues) ==
    IF Len(issues) = 0 THEN <<>>
    ELSE InsertBySeverity(SortBySeverity(SubSeq(issues, 1, Len(issues) - 1)), issues[Len(issues)])

\* mutant: the issues are returned in rule order
sortIssuesNone(issues) == issues

\* issues.sort((a, b) => severityOrder[a.level] - severityOrder[b.level])
sortIssues(issues) == SortBySeverity(issues)

IsWildcardOrigin(origin) ==
    \/ origin.type = "string" /\ origin.val = Star
    \/ origin.type = "boolean" /\ origin.val = TrueStr
    \/ origin.type = "array" /\ \E i \in 1..Len(origin.list) : origin.list[i] = Star

checkSecurity(config, environment) ==
    LET isWildcard == IsWildcardOrigin(config.origin)
        check1 ==
            IF environment = "production" /\ isWildcard
            THEN <<[level |-> "warning", title |-> "Wildcard Origin in Production",
                    description |-> <<"wildcard-in-production">>,
                    recommendation |-> "specify-exact-origins"]>>
            ELSE <<>>
        check2 ==
            IF config.credentials = "true" /\ isWildcard
            THEN <<[level |-> "critical", title |-> "Credentials with Wildcard Origin",
                    description |-> <<"credentials-with-wildcard">>,
                    recommendation |-> "replace-wildcard-origin"]>>
            ELSE <<>>
        exposedSensitiveHeaders ==
            IF config.exposedHeaders # NoList
            THEN SelectSeq(config.exposedHeaders,
                           LAMBDA header : Len(header) = 1 /\ LowerTok(header[1]) \in SENSITIVE_HEADERS)
            ELSE <<>>
        check3 ==
            IF Len(exposedSensitiveHeaders) > 0
            THEN <<[level |-> "warning", title |-> "Sensitive Headers Exposed",
                    description |-> <<"sensitive-headers-exposed:">> \o JoinComma(exposedSensitiveHeaders),
                    recommendation |-> "review-exposed-headers"]>>
            ELSE <<>>
        unnecessaryMethods ==
            IF config.methods # NoList
            THEN SelectSeq(config.methods,
                           LAMBDA method : Len(method) = 1 /\ UpperTok(method[1]) \in POTENTIALLY_DANGEROUS_METHODS)
            ELSE <<>>
        check4 ==
            IF Len(unnecessaryMethods) > 0
            THEN <<[level |-> "info", title |-> "Potentially Unnecessary HTTP Methods Allowed",
                    description |-> <<"methods-allowed:">> \o JoinComma(unnecessaryMethods),
                    recommendation |-> "least-privilege-methods"]>>
            ELSE <<>>
    IN sortIssues(check1 \o check2 \o check3 \o check4)

(***************************************************************************)
(* The analyzer.                                                           *)
(***************************************************************************)
\* generateExpressExample(issue, {origin}).code: the template chosen by the issue label,
\* with the origin (or the default origin) interpolated
generateExpressExample(issue, origin) ==
    LET template ==
            CASE issue = "wildcard credentials conflict" -> "express:credentials-specific-origin"
              [] issue = "preflight missing methods" -> "express:preflight"
              [] issue = "custom headers not allowed" -> "express:custom-headers"
              [] OTHER -> "express:basic"
    IN <<template>> \o (IF Truthy(origin) THEN origin ELSE <<"https://", "example.com">>)

\* header?.split(",").map(trim)
SplitList(header) ==
    IF ~Truthy(header) THEN NoList
    ELSE LET parts == Split(header, ",")
         IN [i \in 1..Len(parts) |-> Trim(parts[i])]

\* the value analyzeHeaders returns, and the outcome when it throws
Returned(diagnoses) == [threw |-> FALSE, diagnoses |-> diagnoses]

Thrown == [threw |-> TRUE, diagnoses |-> <<>>]

\* a pattern diagnosis is appended whenever the catalog matches
patternRepresentedNever(diagnoses, id) == FALSE

\* a pattern diagnosis is withheld whenever some diagnosis carries a pattern
patternRepresentedAny(diagnoses, id) == \E i \in 1..Len(diagnoses) : diagnoses[i].pattern # "undefined"

\* diagnoses.find((d) => d.pattern === pattern.id)
patternRepresented(diagnoses, id) == \E i \in 1..Len(diagnoses) : diagnoses[i].pattern = id

analyzeHeaders(req, res) ==
    LET reqHeaders == parseHeaders(req.headers)
        resHeaders == parseHeaders(res.headers)
        requestOrigin == reqHeaders["origin"]
        isPreflight == isPreflightRequest(req)
        allowOrigin == resHeaders["access-control-allow-origin"]
        allowCredentials == resHeaders["access-control-allow-credentials"]
        allowMethods == resHeaders["access-control-allow-methods"]
        requestHeaders == reqHeaders["access-control-request-headers"]
        allowHeaders == resHeaders["access-control-allow-headers"]
        exposeHeaders == resHeaders["access-control-expose-headers"]
        \* Check 1: missing Access-Control-Allow-Origin
        check1 ==
            IF Truthy(requestOrigin) /\ ~Truthy(allowOrigin)
            THEN <<[issue |-> "Missing Access-Control-Allow-Origin",
                    description |-> <<"missing-allow-origin:">> \o requestOrigin,
                    recommendation |-> "add-allow-origin",
                    codeExample |-> generateExpressExample("missing allow origin", requestOrigin),
                    pattern |-> "undefined",
                    severity |-> "critical"]>>
            ELSE <<>>
        \* Check 2: origin mismatch; normalizeOrigin(allowOrigin) calls .trim() on the value
        reaches2 == Truthy(requestOrigin) /\ Truthy(allowOrigin) /\ allowOrigin # Star
        throws2 == reaches2 /\ IsNumber(allowOrigin)
        check2 ==
            IF reaches2 /\ ~throws2 /\ normalizeOrigin(requestOrigin) # normalizeOrigin(allowOrigin)
            THEN <<[issue |-> "Origin Mismatch",
                    description |-> <<"origin-mismatch:">> \o requestOrigin \o <<"|">> \o allowOrigin,
                    recommendation |-> "include-requesting-origin",
                    codeExample |-> generateExpressExample("origin mismatch", requestOrigin),
                    pattern |-> "undefined",
                    severity |-> "critical"]>>
            ELSE <<>>
        \* Check 3: credentials + wildcard
        check3 ==
            IF allowOrigin = Star /\ allowCredentials = TrueStr
            THEN <<[issue |-> "Wildcard Origin with Credentials",
                    description |-> <<"wildcard-with-credentials">>,
                    recommendation |-> "replace-wildcard-with-origin",
                    codeExample |-> generateExpressExample("wildcard credentials conflict", requestOrigin),
                    pattern |-> "wildcard-credentials-conflict",
                    severity |-> "critical"]>>
            ELSE <<>>
        \* Check 4: preflight-specific checks
        check4a ==
            IF isPreflight /\ ~Truthy(allowMethods)
            THEN <<[issue |-> "Missing Access-Control-Allow-Methods on Preflight",
                    description |-> <<"preflight-missing-methods">>,
                    recommendation |-> "add-allow-methods",
                    codeExample |-> generateExpressExample("preflight missing methods", requestOrigin),
                    pattern |-> "undefined",
                    severity |-> "critical"]>>
            ELSE <<>>
        check4b ==
            IF isPreflight /\ Truthy(requestHeaders) /\ ~Truthy(allowHeaders)
            THEN <<[issue |-> "Missing Access-Control-Allow-Headers on Preflight",
                    description |-> <<"preflight-missing-headers:">> \o requestHeaders,
                    recommendation |-> "add-allow-headers",
                    codeExample |-> generateExpressExample("custom headers not allowed", requestOrigin),
                    pattern |-> "custom-headers-not-allowed",
                    severity |-> "critical"]>>
            ELSE <<>>
        adHoc == check1 \o check2 \o check3 \o check4a \o check4b
        \* Check 5: common patterns
        pat == detectPattern(req, res)
        check5 ==
            IF pat # NoPattern /\ ~patternRepresented(adHoc, pat)
            THEN <<[issue |-> PatternName(pat),
                    description |-> <<"pattern-explanation:", pat>>,
                    recommendation |-> pat,
                    codeExample |-> <<"pattern-example:", pat>>,
                    pattern |-> pat,
                    severity |-> "warning"]>>
            ELSE <<>>
        \* Check 6: security validation; .split on a number is a TypeError
        throws6 == IsNumber(allowMethods) \/ IsNumber(allowHeaders) \/ IsNumber(exposeHeaders)
        currentConfig ==
            [origin |-> IF Truthy(allowOrigin) THEN OriginStr(allowOrigin) ELSE OriginBool(FALSE),
             methods |-> SplitList(allowMethods),
             allowedHeaders |-> SplitList(allowHeaders),
             exposedHeaders |-> SplitList(exposeHeaders),
             credentials |-> IF allowCredentials = TrueStr THEN "true" ELSE "false",
             maxAge |-> IF Truthy(resHeaders["access-control-max-age"]) THEN "number" ELSE "undefined"]
        securityIssues == checkSecurity(currentConfig, "production")
        check6 ==
            [i \in 1..Len(securityIssues) |->
                [issue |-> securityIssues[i].title,
                 description |-> securityIssues[i].description,
                 recommendation |-> securityIssues[i].recommendation,
                 codeExample |-> Undefined,
                 pattern |-> "undefined",
                 severity |-> securityIssues[i].level]]
    IN IF throws2 \/ throws6 THEN Thrown
       ELSE Returned(adHoc \o check5 \o check6)

(***************************************************************************)
(* ErrorHistory: the ledger of the middleware.                             *)
(***************************************************************************)
\* String.prototype.localeCompare on the issue titles the analyzer produces: their collation rank
IssueRank(issue) ==
    CASE issue = "Credentials Mode Mismatch" -> 1
      [] issue = "Credentials with Wildcard Origin" -> 2
      [] issue = "Custom Headers Not Allowed" -> 3
      [] issue = "Missing Access-Control-Allow-Headers on Preflight" -> 4
      [] issue = "Missing Access-Control-Allow-Methods on Preflight" -> 5
      [] issue = "Missing Access-Control-Allow-Origin" -> 6
      [] issue = "Multiple Origins Misconfiguration" -> 7
      [] issue = "Origin 'null' Blocked" -> 8
      [] issue = "Origin Mismatch" -> 9
      [] issue = "Potentially Unnecessary HTTP Methods Allowed" -> 10
      [] issue = "Preflight Request Failure" -> 11
      [] issue = "Same Domain Different Port Blocked" -> 12
      [] issue = "Sensitive Headers Exposed" -> 13
      [] issue = "Wildcard Origin in Production" -> 14
      [] issue = "Wildcard Origin with Credentials" -> 15
      [] issue = "Wildcard Origin with Credentials Conflict" -> 16

\* [...a].sort((x, y) => x.issue.localeCompare(y.issue)): stable
RECURSIVE InsertByIssue(_, _)
InsertByIssue(sorted, x) ==
    IF Len(sorted) = 0 THEN <<x>>
    ELSE IF IssueRank(sorted[Len(sorted)].issue) <= IssueRank(x.issue) THEN Append(sorted, x)
    ELSE Append(InsertByIssue(SubSeq(sorted, 1, Len(sorted) - 1), x), sorted[Len(sorted)])

RECURSIVE SortByIssue(_)
SortByIssue(list) ==
    IF Len(list) = 0 THEN <<>>
    ELSE InsertByIssue(SortByIssue(SubSeq(list, 1, Len(list) - 1)), list[Len(list)])

diagnosesMatch(a, b) ==
    IF Len(a) # Len(b) THEN FALSE
    ELSE LET sortedA == SortByIssue(a)
             sortedB == SortByIssue(b)
         IN \A idx \in 1..Len(sortedA) :
                /\ sortedA[idx].issue = sortedB[idx].issue
                /\ sortedA[idx].description = sortedB[idx].description
                /\ sortedA[idx].recommendation = sortedB[idx].recommendation

\* the predicate of this.errors.find in add
SameError(e, error) ==
    /\ e.route = error.route
    /\ e.method = error.method
    /\ e.origin = error.origin
    /\ diagnosesMatch(e.diagnoses, error.diagnoses)

\* mutant: no deduplication, every error becomes a new entry
addNoDedup(errors, maxSize, error) ==
    LET newError == [timestamp |-> error.timestamp, route |-> error.route, method |-> error.method,
                     origin |-> error.origin, diagnoses |-> error.diagnoses, count |-> 1]
        unshifted == <<newError>> \o errors
    IN IF Len(unshifted) > maxSize THEN SubSeq(unshifted, 1, Len(unshifted) - 1) ELSE unshifted

\* mutant: on overflow the newest entry is removed (shift instead of pop)
addEvictNewest(errors, maxSize, error) ==
    IF \E i \in 1..Len(errors) : SameError(errors[i], error)
    THEN LET i == CHOOSE k \in 1..Len(errors) :
                    SameError(errors[k], error) /\ \A j \in 1..(k - 1) : ~SameError(errors[j], error)
         IN [errors EXCEPT ![i].count = @ + 1, ![i].timestamp = error.timestamp]
    ELSE LET newError == [timestamp |-> error.timestamp, route |-> error.route, method |-> error.method,
                          origin |-> error.origin, diagnoses |-> error.diagnoses, count |-> 1]
             unshifted == <<newError>> \o errors
         IN IF Len(unshifted) > maxSize THEN Tail(unshifted) ELSE unshifted

\* a repeat occurrence moves the entry to the front of the array (eviction by recency)
addMoveToFront(errors, maxSize, error) ==
    IF \E i \in 1..Len(errors) : SameError(errors[i], error)
    THEN LET i == CHOOSE k \in 1..Len(errors) :
                    SameError(errors[k], error) /\ \A j \in 1..(k - 1) : ~SameError(errors[j], error)
             existingError == [errors[i] EXCEPT !.count = @ + 1, !.timestamp = error.timestamp]
         IN <<existingError>> \o SubSeq(errors, 1, i - 1) \o SubSeq(errors, i + 1, Len(errors))
    ELSE LET newError == [timestamp |-> error.timestamp, route |-> error.route, method |-> error.method,
                          origin |-> error.origin, diagnoses |-> error.diagnoses, count |-> 1]
             unshifted == <<newError>> \o errors
         IN IF Len(unshifted) > maxSize THEN SubSeq(unshifted, 1, Len(unshifted) - 1) ELSE unshifted

\* ErrorHistory.add: the errors array afterwards
add(errors, maxSize, error) ==
    IF \E i \in 1..Len(errors) : SameError(errors[i], error)
    THEN LET i == CHOOSE k \in 1..Len(errors) :
                    SameError(errors[k], error) /\ \A j \in 1..(k - 1) : ~SameError(errors[j], error)
         IN [errors EXCEPT ![i].count = @ + 1, ![i].timestamp = error.timestamp]
    ELSE LET newError == [timestamp |-> error.timestamp, route |-> error.route, method |-> error.method,
                          origin |-> error.origin, diagnoses |-> error.diagnoses, count |-> 1]
             unshifted == <<newError>> \o errors
         IN IF Len(unshifted) > maxSize THEN SubSeq(unshifted, 1, Len(unshifted) - 1) ELSE unshifted

\* [...this.errors].sort((a, b) => b.timestamp - a.timestamp): stable, newest first
RECURSIVE InsertByTimestamp(_, _)
InsertByTimestamp(sorted, x) ==
    IF Len(sorted) = 0 THEN <<x>>
    ELSE IF sorted[Len(sorted)].timestamp >= x.timestamp THEN Append(sorted, x)
    ELSE Append(InsertByTimestamp(SubSeq(sorted, 1, Len(sorted) - 1), x), sorted[Len(sorted)])

RECURSIVE SortByTimestamp(_)
SortByTimestamp(list) ==
    IF Len(list) = 0 THEN <<>>
    ELSE InsertByTimestamp(SortByTimestamp(SubSeq(list, 1, Len(list) - 1)), list[Len(list)])

\* mutant: the array is returned in insertion order
getAllUnsorted(errors) == errors

getAll(errors) == SortByTimestamp(errors)

\* let errorHistory: ErrorHistory | null = null
NoHistory == [exists |-> FALSE, maxSize |-> 0, errors |-> <<>>]

\* new ErrorHistory(maxSize)
NewErrorHistory(maxSize) == [exists |-> TRUE, maxSize |-> maxSize, errors |-> <<>>]

getErrorHistory == IF ~errorHistory.exists THEN <<>> ELSE getAll(errorHistory.errors)

(***************************************************************************)
(* corsDiagnoser and corsMiddleware.                                       *)
(***************************************************************************)
\* the option objects corsDiagnoser is called with (defaults filled in)
OptionChoices ==
    {[verbose |-> FALSE, enableHistory |-> TRUE, maxHistorySize |-> 2, securityChecks |-> TRUE],
     [verbose |-> FALSE, enableHistory |-> TRUE, maxHistorySize |-> 1, securityChecks |-> FALSE],
     [verbose |-> TRUE, enableHistory |-> FALSE, maxHistorySize |-> 2, securityChecks |-> TRUE]}

ReqHeaders(origin, acrm, acrh, cookie) ==
    [k \in ReqHeaderNames |->
        CASE k = "origin" -> origin
          [] k = "access-control-request-method" -> acrm
          [] k = "access-control-request-headers" -> acrh
          [] k = "cookie" -> cookie]

ResHeaders(allowOrigin, allowCredentials, allowMethods, allowHeaders, exposeHeaders, maxAge) ==
    [k \in ResHeaderNames |->
        CASE k = "access-control-allow-origin" -> allowOrigin
          [] k = "access-control-allow-credentials" -> allowCredentials
          [] k = "access-control-allow-methods" -> allowMethods
          [] k = "access-control-allow-headers" -> allowHeaders
          [] k = "access-control-expose-headers" -> exposeHeaders
          [] k = "access-control-max-age" -> maxAge]

GetDelete == <<"GET", ",", " ", "delete">>

\* the request/response pairs sent through the middleware
\* Origin sent, no CORS header in the response
ExMissing ==
    [req |-> [method |-> "GET", headers |-> ReqHeaders(OriginA, Undefined, Undefined, Undefined)],
     res |-> [headers |-> ResHeaders(Undefined, Undefined, Undefined, Undefined, Undefined, Undefined)]]

\* a correct response: no diagnosis
ExClean ==
    [req |-> [method |-> "GET", headers |-> ReqHeaders(OriginA, Undefined, Undefined, Undefined)],
     res |-> [headers |-> ResHeaders(OriginA, Undefined, Undefined, Undefined, Undefined, Undefined)]]

\* wildcard origin and DELETE allowed
ExWildcard ==
    [req |-> [method |-> "GET", headers |-> ReqHeaders(OriginA, Undefined, Undefined, Undefined)],
     res |-> [headers |-> ResHeaders(Star, Undefined, GetDelete, Undefined, Undefined, Undefined)]]

\* a numeric Access-Control-Allow-Origin value
ExNumeric ==
    [req |-> [method |-> "GET", headers |-> ReqHeaders(OriginA, Undefined, Undefined, Undefined)],
     res |-> [headers |-> ResHeaders(NumVal, Undefined, Undefined, Undefined, Undefined, Undefined)]]

ExchangeNames == {"missing", "clean", "wildcard", "numeric"}

Exchange(name) ==
    CASE name = "missing" -> ExMissing
      [] name = "clean" -> ExClean
      [] name = "wildcard" -> ExWildcard
      [] name = "numeric" -> ExNumeric

\* the requests: the route (req.path) and the exchange
Requests ==
    {[route |-> "/r1", ex |-> "missing"], [route |-> "/r2", ex |-> "missing"],
     [route |-> "/r1", ex |-> "clean"], [route |-> "/r1", ex |-> "wildcard"],
     [route |-> "/r1", ex |-> "numeric"]}

\* exceptions raised by the collaborators of performAnalysis: console.log, errorHistory.add
Faults == {"none", "log", "add"}

\* analyzeHeaders(req, res) of every exchange
AnalysisOf == [x \in ExchangeNames |-> analyzeHeaders(Exchange(x).req, Exchange(x).res)]

NoReq ==
    [active |-> FALSE, opts |-> CHOOSE o \in OptionChoices : TRUE, route |-> "", ex |-> "clean",
     analyzed |-> FALSE, analyzeCalls |-> 0, addCalls |-> 0, wrote |-> FALSE, origInvoked |-> FALSE,
     finished |-> FALSE]

NoLog == [level |-> "none", diagnoses |-> <<>>, securityChecks |-> TRUE]

\* filteredDiagnoses
Filtered(securityChecks, diagnoses) ==
    IF securityChecks THEN diagnoses ELSE SelectSeq(diagnoses, LAMBDA d : d.severity # "info")

\* mutant: the enableHistory option of the middleware is not consulted
historyEnabledIgnoreOption(r, hist) == hist.exists

\* if (enableHistory && errorHistory)
historyEnabled(r, hist) == r.opts.enableHistory /\ hist.exists

\* The body of the try block of performAnalysis for request r, with the ledger hist and
\* the time now.  The outcome: the request's closure state, the ledger, what was
\* logged, the entry handed to add (ghost) and whether an exception was raised.
tryAnalysis(r, hist, fault, now) ==
    LET result == AnalysisOf[r.ex]
        filteredDiagnoses == Filtered(r.opts.securityChecks, result.diagnoses)
        req == Exchange(r.ex).req
        origin == IF Truthy(req.headers["origin"]) THEN req.headers["origin"] ELSE EmptyStr
        error == [timestamp |-> now, route |-> r.route, method |-> req.method,
                  origin |-> origin, diagnoses |-> filteredDiagnoses]
        raised == [req |-> r, hist |-> hist, log |-> <<>>, added |-> <<>>, threw |-> TRUE]
        errorLog == <<[level |-> "error", diagnoses |-> filteredDiagnoses, securityChecks |-> r.opts.securityChecks]>>
        infoLog == <<[level |-> "info", diagnoses |-> <<>>, securityChecks |-> r.opts.securityChecks]>>
    IN IF result.threw THEN raised
       ELSE IF Len(filteredDiagnoses) > 0
            THEN IF fault = "log" THEN raised
                 ELSE IF historyEnabled(r, hist)
                      THEN IF fault = "add" THEN [raised EXCEPT !.log = errorLog]
                           ELSE [req |-> [r EXCEPT !.addCalls = @ + 1],
                                 hist |-> [hist EXCEPT !.errors = add(hist.errors, hist.maxSize, error)],
                                 log |-> errorLog, added |-> <<error>>, threw |-> FALSE]
                      ELSE [req |-> r, hist |-> hist, log |-> errorLog, added |-> <<>>, threw |-> FALSE]
       ELSE [req |-> r, hist |-> hist, log |-> IF r.opts.verbose THEN infoLog ELSE <<>>,
             added |-> <<>>, threw |-> FALSE]

\* mutant: the exception is not caught
catchAnalysisErrorRethrow(out, securityChecks) == out

\* try { ... } catch (analysisError) { console.error(...) }
catchAnalysisError(out, securityChecks) ==
    IF out.threw
    THEN [out EXCEPT !.threw = FALSE,
                     !.log = @ \o <<[level |-> "console.error", diagnoses |-> <<>>,
                                     securityChecks |-> securityChecks]>>]
    ELSE out

\* mutant: the analyzed flag is not consulted
performAnalysisNoFlag(r, hist, fault, now) ==
    catchAnalysisError(
        tryAnalysis([r EXCEPT !.analyzed = TRUE, !.analyzeCalls = @ + 1], hist, fault, now),
        r.opts.securityChecks)

\* performAnalysis: at most once per request (the analyzed flag of the closure)
performAnalysis(r, hist, fault, now) ==
    IF r.analyzed
    THEN [req |-> r, hist |-> hist, log |-> <<>>, added |-> <<>>, threw |-> FALSE]
    ELSE catchAnalysisError(
             tryAnalysis([r EXCEPT !.analyzed = TRUE, !.analyzeCalls = @ + 1], hist, fault, now),
             r.opts.securityChecks)

\* the state after a hook (res.send, res.json or the 'finish' listener) ran performAnalysis
\* and, for send/json, the original method
AfterHook(out, isWrite) ==
    /\ cur' = IF isWrite
              THEN [out.req EXCEPT !.wrote = TRUE, !.origInvoked = ~out.threw]
              ELSE [out.req EXCEPT !.finished = TRUE]
    /\ errorHistory' = out.hist
    /\ lastLogged' = IF Len(out.log) > 0 THEN out.log[Len(out.log)] ELSE lastLogged
    /\ addLog' = IF Len(out.added) > 0
                 THEN Append(addLog, [error |-> [out.added[1] EXCEPT !.timestamp = 0],
                                      securityChecks |-> cur.opts.securityChecks])
                 ELSE addLog
    /\ escaped' = (escaped \/ out.threw)
    /\ nextCalls' = 0
    /\ UNCHANGED <<middlewares, nreq, clock>>
    /\ UNCHANGED pureVars
    /\ UNCHANGED browserVars

\* corsDiagnoser(options)
CorsDiagnoser(options) ==
    /\ options \notin middlewares
    /\ middlewares' = middlewares \cup {options}
    /\ errorHistory' = IF options.enableHistory /\ ~errorHistory.exists
                       THEN NewErrorHistory(options.maxHistorySize)
                       ELSE errorHistory
    /\ nextCalls' = 0
    /\ UNCHANGED <<cur, nreq, clock, addLog, lastLogged, escaped>>
    /\ UNCHANGED pureVars
    /\ UNCHANGED browserVars

\* corsMiddleware(req, res, next): captures the request, installs the hooks, calls next();
\* when that call of next() throws, the catch block logs and calls next() again
CorsMiddleware(options, request, nextThrows) ==
    /\ options \in middlewares
    /\ nreq < MaxRequests
    /\ ~cur.active \/ cur.finished
    /\ cur' = [active |-> TRUE, opts |-> options, route |-> request.route, ex |-> request.ex,
               analyzed |-> FALSE, analyzeCalls |-> 0, addCalls |-> 0, wrote |-> FALSE,
               origInvoked |-> FALSE, finished |-> FALSE]
    /\ nreq' = nreq + 1
    /\ lastLogged' = NoLog
    /\ nextCalls' = IF nextThrows THEN 2 ELSE 1
    /\ UNCHANGED <<errorHistory, middlewares, clock, addLog, escaped>>
    /\ UNCHANGED pureVars
    /\ UNCHANGED browserVars

\* the handler calls the wrapped res.send
Send(fault) ==
    /\ cur.active
    /\ fault = "none" \/ ~cur.analyzed
    /\ AfterHook(performAnalysis(cur, errorHistory, fault, clock), TRUE)

\* the handler calls the wrapped res.json
Json(fault) ==
    /\ cur.active
    /\ fault = "none" \/ ~cur.analyzed
    /\ AfterHook(performAnalysis(cur, errorHistory, fault, clock), TRUE)

\* the response emits 'finish' and no listener analyzes it
FinishNoAnalysis(fault) ==
    /\ cur.active
    /\ fault = "none" \/ ~cur.analyzed
    /\ ~cur.finished
    /\ AfterHook([req |-> cur, hist |-> errorHistory, log |-> <<>>, added |-> <<>>, threw |-> FALSE], FALSE)

\* the response emits 'finish'
Finish(fault) ==
    /\ cur.active
    /\ fault = "none" \/ ~cur.analyzed
    /\ ~cur.finished
    /\ AfterHook(performAnalysis(cur, errorHistory, fault, clock), FALSE)

\* clearErrorHistory()
ClearErrorHistory ==
    /\ errorHistory.exists
    /\ errorHistory.errors # <<>>
    /\ errorHistory' = [errorHistory EXCEPT !.errors = <<>>]
    /\ addLog' = <<>>
    /\ nextCalls' = 0
    /\ UNCHANGED <<middlewares, cur, nreq, clock, lastLogged, escaped>>
    /\ UNCHANGED pureVars
    /\ UNCHANGED browserVars

\* time passes
Tick ==
    /\ clock < MaxClock
    /\ clock' = clock + 1
    /\ nextCalls' = 0
    /\ UNCHANGED <<errorHistory, middlewares, cur, nreq, addLog, lastLogged, escaped>>
    /\ UNCHANGED pureVars
    /\ UNCHANGED browserVars

(***************************************************************************)
(* The browser listener.                                                   *)
(***************************************************************************)
\* errorListener = null
NoListener == [set |-> FALSE, verbose |-> FALSE, customHandler |-> "undefined"]

\* the module-level state of the browser listener before any call
BrowserIdle ==
    /\ hasWindow = TRUE
    /\ windowListeners = <<>>
    /\ errorListener = NoListener
    /\ isListening = FALSE
    /\ corsErrorHistory = <<>>
    /\ handlerLog = <<>>
    /\ listenerEscaped = FALSE
    /\ consoleLast = "none"
    /\ dispatched = 0

\* needle is a substring of the (lower-case) token
TokContains(tok, needle) ==
    \/ tok = needle
    \/ tok = "unblocked" /\ needle = "blocked"

\* String.prototype.includes on a string of several tokens
IncludesText(message, needle) == \E i \in 1..Len(message) : TokContains(message[i], needle)

\* isCorsError(errorMessage)
isCorsError(errorMessage) ==
    LET message == ToLowerCase(errorMessage)
    IN \/ IncludesText(message, "cors")
       \/ IncludesText(message, "cross-origin")
       \/ IncludesText(message, "blocked")

\* analyzeCorsError(errorMessage): every keyword rule that fires contributes its causes and
\* its recommendations (named here by the rule), the generic fallback fires when none does
analyzeCorsError(errorMessage) ==
    LET message == ToLowerCase(errorMessage)
        rule(fires, name) == IF fires THEN <<name>> ELSE <<>>
        fired ==
            rule(IncludesText(message, "access-control-allow-origin"), "allow-origin")
            \o rule(\/ IncludesText(message, "preflight")
                    \/ IncludesText(message, "options")
                    \/ IncludesText(message, "access-control-request"), "preflight")
            \o rule(\/ IncludesText(message, "credential")
                    \/ IncludesText(message, "cookie")
                    \/ IncludesText(message, "withcredentials"), "credentials")
            \o rule(/\ IncludesText(message, "header")
                    /\ IncludesText(message, "not allowed") \/ IncludesText(message, "forbidden"),
                    "custom-headers")
            \o rule(IncludesText(message, "method") /\ IncludesText(message, "not allowed"), "method")
            \o rule(IncludesText(message, "blocked") /\ IncludesText(message, "policy"), "policy")
        causes == IF Len(fired) = 0 THEN <<"generic">> ELSE fired
    IN [possibleCauses |-> causes, recommendations |-> causes]

\* displayCorsError(errorInfo, verbose): the last thing it writes to the console
displayCorsError(errorInfo, verbose) == IF verbose THEN "tip" ELSE "error-displayed"

\* the bound on the number of error events the window dispatches
MaxEvents == 3

\* the error events of the window: event.message and event.error?.message
ErrorEvents ==
    { [message |-> <<"Access", " ", "Blocked", " ", "by", " ", "CORS", " ", "policy">>, error |-> EmptyStr],
      [message |-> EmptyStr, error |-> <<"Cross-Origin", " ", "preflight", " ", "failed">>],
      [message |-> <<"Unblocked">>, error |-> EmptyStr],
      [message |-> <<"TypeError">>, error |-> <<"CORS">>],
      [message |-> EmptyStr, error |-> EmptyStr] }

\* BrowserListenerOptions: verbose and customHandler are both optional
ListenerOptions == [verbose : BOOLEAN, customHandler : {"undefined", "handler"}]

\* the errorListener closure without the try around the custom handler
errorListenerNoCatch(closure, event, now, handlerThrows, run) ==
    LET errorMessage == IF event.message # EmptyStr THEN event.message ELSE event.error
    IN IF ~isCorsError(errorMessage)
       THEN run
       ELSE LET analyzed == analyzeCorsError(errorMessage)
                errorInfo == [message |-> errorMessage,
                              possibleCauses |-> analyzed.possibleCauses,
                              recommendations |-> analyzed.recommendations,
                              timestamp |-> now]
                history == Append(run.history, errorInfo)
                shown == displayCorsError(errorInfo, closure.verbose)
            IN IF closure.customHandler = "undefined"
               THEN [run EXCEPT !.history = history, !.console = shown]
               ELSE [history |-> history,
                     handled |-> Append(run.handled, errorInfo),
                     threw |-> run.threw \/ handlerThrows,
                     console |-> shown]

\* the errorListener closure created by listenCorsErrors, called with one ErrorEvent:
\* filter, analyze, push to the history, display, then the custom handler inside try/catch
errorListenerCall(closure, event, now, handlerThrows, run) ==
    LET errorMessage == IF event.message # EmptyStr THEN event.message ELSE event.error
    IN IF ~isCorsError(errorMessage)
       THEN run
       ELSE LET analyzed == analyzeCorsError(errorMessage)
                errorInfo == [message |-> errorMessage,
                              possibleCauses |-> analyzed.possibleCauses,
                              recommendations |-> analyzed.recommendations,
                              timestamp |-> now]
                history == Append(run.history, errorInfo)
                shown == displayCorsError(errorInfo, closure.verbose)
            IN IF closure.customHandler = "undefined"
               THEN [run EXCEPT !.history = history, !.console = shown]
               ELSE [history |-> history,
                     handled |-> Append(run.handled, errorInfo),
                     threw |-> run.threw,
                     console |-> IF handlerThrows THEN "handler-error" ELSE shown]

\* the window calls every registered "error" listener in registration order
RECURSIVE DispatchFrom(_, _, _, _, _, _)
DispatchFrom(listeners, i, event, now, handlerThrows, run) ==
    IF i > Len(listeners)
    THEN run
    ELSE DispatchFrom(listeners, i + 1, event, now, handlerThrows,
                      errorListenerCall(listeners[i], event, now, handlerThrows, run))

\* window.removeEventListener("error", listener)
RECURSIVE removeEventListener(_, _)
removeEventListener(listeners, listener) ==
    IF listeners = <<>>
    THEN <<>>
    ELSE IF Head(listeners) = listener
         THEN Tail(listeners)
         ELSE <<Head(listeners)>> \o removeEventListener(Tail(listeners), listener)

\* the closure held by the module variable errorListener
ClosureOf(listener) == [verbose |-> listener.verbose, customHandler |-> listener.customHandler]

\* listenCorsErrors(options) without the check of isListening
ListenCorsErrorsUnguarded(options) ==
    /\ listenerEscaped' = FALSE
    /\ IF ~hasWindow
       THEN /\ consoleLast' = "ssr-warning"
            /\ UNCHANGED <<windowListeners, errorListener, isListening>>
       ELSE /\ errorListener' = [set |-> TRUE, verbose |-> options.verbose,
                                 customHandler |-> options.customHandler]
            /\ windowListeners' = Append(windowListeners, options)
            /\ isListening' = TRUE
            /\ consoleLast' = IF options.verbose THEN "started" ELSE "none"
    /\ UNCHANGED <<hasWindow, corsErrorHistory, handlerLog, dispatched>>
    /\ UNCHANGED mwVars
    /\ UNCHANGED pureVars

\* listenCorsErrors(options)
ListenCorsErrors(options) ==
    /\ listenerEscaped' = FALSE
    /\ IF ~hasWindow
       THEN /\ consoleLast' = "ssr-warning"
            /\ UNCHANGED <<windowListeners, errorListener, isListening>>
       ELSE IF isListening
            THEN /\ consoleLast' = "already-active"
                 /\ UNCHANGED <<windowListeners, errorListener, isListening>>
            ELSE /\ errorListener' = [set |-> TRUE, verbose |-> options.verbose,
                                      customHandler |-> options.customHandler]
                 /\ windowListeners' = Append(windowListeners, options)
                 /\ isListening' = TRUE
                 /\ consoleLast' = IF options.verbose THEN "started" ELSE "none"
    /\ UNCHANGED <<hasWindow, corsErrorHistory, handlerLog, dispatched>>
    /\ UNCHANGED mwVars
    /\ UNCHANGED pureVars

\* stopListening()
StopListening ==
    /\ listenerEscaped' = FALSE
    /\ IF hasWindow /\ errorListener.set
       THEN /\ windowListeners' = removeEventListener(windowListeners, ClosureOf(errorListener))
            /\ errorListener' = NoListener
            /\ isListening' = FALSE
            /\ consoleLast' = "stopped"
       ELSE /\ consoleLast' = "none"
            /\ UNCHANGED <<windowListeners, errorListener, isListening>>
    /\ UNCHANGED <<hasWindow, corsErrorHistory, handlerLog, dispatched>>
    /\ UNCHANGED mwVars
    /\ UNCHANGED pureVars

\* the window dispatches one "error" event; the custom handler, if called, may throw
DispatchError(event, handlerThrows) ==
    /\ hasWindow
    /\ dispatched < MaxEvents
    /\ dispatched' = dispatched + 1
    /\ LET run == DispatchFrom(windowListeners, 1, event, dispatched + 1, handlerThrows,
                               [history |-> corsErrorHistory, handled |-> handlerLog,
                                threw |-> FALSE, console |-> "none"])
       IN /\ corsErrorHistory' = run.history
          /\ handlerLog' = run.handled
          /\ listenerEscaped' = run.threw
          /\ consoleLast' = run.console
    /\ UNCHANGED <<hasWindow, windowListeners, errorListener, isListening>>
    /\ UNCHANGED mwVars
    /\ UNCHANGED pureVars

\* clearCorsErrors()
ClearCorsErrors ==
    /\ corsErrorHistory' = <<>>
    /\ listenerEscaped' = FALSE
    /\ consoleLast' = "none"
    /\ UNCHANGED <<hasWindow, windowListeners, errorListener, isListening, handlerLog, dispatched>>
    /\ UNCHANGED mwVars
    /\ UNCHANGED pureVars

\* no pure function has returned yet
NoResult == <<>>

PureIdle ==
    /\ pin = ExClean
    /\ pphase = "idle"
    /\ analysis = Returned(<<>>)
    /\ pattern = NoPattern
    /\ pout = NoResult

Init ==
    /\ errorHistory = NoHistory
    /\ middlewares = {}
    /\ cur = NoReq
    /\ nreq = 0
    /\ clock = 0
    /\ addLog = <<>>
    /\ lastLogged = NoLog
    /\ escaped = FALSE
    /\ nextCalls = 0
    /\ PureIdle
    /\ BrowserIdle

Next ==
    \/ \E options \in OptionChoices : CorsDiagnoser(options)
    \/ \E options \in OptionChoices, request \in Requests, nextThrows \in BOOLEAN :
           CorsMiddleware(options, request, nextThrows)
    \/ \E fault \in Faults : Send(fault)
    \/ \E fault \in Faults : Json(fault)
    \/ \E fault \in Faults : Finish(fault)
    \/ ClearErrorHistory
    \/ Tick

Spec == Init /\ [][Next]_vars

(***************************************************************************)
(* The pure functions of the analyzer, applied to a request/response pair. *)
(***************************************************************************)
OriginAPort5000 == <<"https://", "a.com", ":", "5000">>

ReqInputs ==
    {[method |-> m, headers |-> ReqHeaders(o, rm, rh, c)] :
        m \in {"GET", "OPTIONS", "PURGE"},
        o \in {Undefined, OriginA, OriginAUpper, NullStr, OriginAPort},
        rm \in {Undefined, <<"POST">>},
        rh \in {Undefined, <<"x-custom">>},
        c \in {Undefined, <<"sid=1">>}}

ResInputs ==
    {[headers |-> ResHeaders(ao, ac, am, ah, eh, Undefined)] :
        ao \in {Undefined, EmptyStr, Star, OriginA, OriginB, OriginAPort5000, OriginList, NullStr, NumVal},
        ac \in {Undefined, TrueStr, <<"false">>},
        am \in {Undefined, <<"GET", ",", " ", "POST">>, GetDelete, NumVal},
        ah \in {Undefined, <<"x-custom">>},
        eh \in {Undefined, <<"Authorization">>, <<"X-Total">>}}

InitAnalyze ==
    /\ errorHistory = NoHistory
    /\ middlewares = {}
    /\ cur = NoReq
    /\ nreq = 0
    /\ clock = 0
    /\ addLog = <<>>
    /\ lastLogged = NoLog
    /\ escaped = FALSE
    /\ nextCalls = 0
    /\ BrowserIdle
    /\ pin \in {[req |-> q, res |-> p] : q \in ReqInputs, p \in ResInputs}
    /\ pphase = "idle"
    /\ analysis = Returned(<<>>)
    /\ pattern = NoPattern
    /\ pout = NoResult

CallAnalyzeHeaders ==
    /\ pphase = "idle"
    /\ pphase' = "analyzeHeaders"
    /\ analysis' = analyzeHeaders(pin.req, pin.res)
    /\ UNCHANGED <<pin, pattern, pout>>
    /\ UNCHANGED mwVars
    /\ UNCHANGED browserVars

CallDetectPattern ==
    /\ pphase = "idle"
    /\ pphase' = "detectPattern"
    /\ pattern' = detectPattern(pin.req, pin.res)
    /\ UNCHANGED <<pin, analysis, pout>>
    /\ UNCHANGED mwVars
    /\ UNCHANGED browserVars

NextAnalyze == CallAnalyzeHeaders \/ CallDetectPattern

SpecAnalyze == InitAnalyze /\ [][NextAnalyze]_vars

(***************************************************************************)
(* checkSecurity applied to a configuration.                               *)
(***************************************************************************)
\* the middleware is not involved in a call of a pure function
MwIdle ==
    /\ errorHistory = NoHistory
    /\ middlewares = {}
    /\ cur = NoReq
    /\ nreq = 0
    /\ clock = 0
    /\ addLog = <<>>
    /\ lastLogged = NoLog
    /\ escaped = FALSE
    /\ nextCalls = 0

\* CorsConfiguration values handed to checkSecurity
SecurityConfigs ==
    {[origin |-> o, credentials |-> c, methods |-> m, exposedHeaders |-> e] :
        o \in {OriginStr(Star), OriginStr(OriginA), OriginBool(TRUE), OriginBool(FALSE),
               OriginArr(<<OriginA, Star>>), OriginArr(<<OriginA>>)},
        c \in {"true", "false", "undefined"},
        m \in {NoList, <<>>, << <<"GET">> >>, << <<"GET">>, <<"delete">> >>, << <<"PUT">>, <<"PATCH">> >>},
        e \in {NoList, <<>>, << <<"Authorization">> >>, << <<"X-Total">> >>,
               << <<"X-Total">>, <<"cookie">> >>}}

Environments == {"production", "development"}

InitSecurity ==
    /\ MwIdle
    /\ BrowserIdle
    /\ pin \in {[config |-> c, environment |-> e] : c \in SecurityConfigs, e \in Environments}
    /\ pphase = "idle"
    /\ analysis = Returned(<<>>)
    /\ pattern = NoPattern
    /\ pout = NoResult

CallCheckSecurity ==
    /\ pphase = "idle"
    /\ pphase' = "checkSecurity"
    /\ pout' = checkSecurity(pin.config, pin.environment)
    /\ UNCHANGED <<pin, analysis, pattern>>
    /\ UNCHANGED mwVars
    /\ UNCHANGED browserVars

NextSecurity == CallCheckSecurity

SpecSecurity == InitSecurity /\ [][NextSecurity]_vars

(***************************************************************************)
(* testOrigin applied to an origin and a configuration.                    *)
(***************************************************************************)
\* config.origin absent at run time
OriginUndef == [type |-> "undefined", val |-> <<>>, list |-> <<>>]

NoHeaders ==
    [allowOrigin |-> Undefined, allowCredentials |-> Undefined, allowMethods |-> Undefined,
     allowHeaders |-> Undefined, exposeHeaders |-> Undefined, maxAge |-> Undefined]

\* mutant: origins are compared as written
resolveOriginRaw(origin, config) ==
    IF config.origin = OriginBool(TRUE) \/ config.origin = OriginStr(Star)
    THEN [allowed |-> TRUE, reason |-> "undefined", headers |-> [NoHeaders EXCEPT !.allowOrigin = Star]]
    ELSE IF config.origin.type = "string"
    THEN IF origin = config.origin.val
         THEN [allowed |-> TRUE, reason |-> "undefined",
               headers |-> [NoHeaders EXCEPT !.allowOrigin = config.origin.val]]
         ELSE [allowed |-> FALSE, reason |-> "does not match configured origin", headers |-> NoHeaders]
    ELSE IF config.origin.type = "array"
    THEN IF \E i \in 1..Len(config.origin.list) : config.origin.list[i] = origin
         THEN [allowed |-> TRUE, reason |-> "undefined",
               headers |-> [NoHeaders EXCEPT !.allowOrigin = origin]]
         ELSE [allowed |-> FALSE, reason |-> "not in the list of allowed origins", headers |-> NoHeaders]
    ELSE [allowed |-> FALSE, reason |-> "CORS is not configured", headers |-> NoHeaders]

\* testOrigin, "Check if origin is allowed": allowed, reason and the Allow-Origin header
resolveOrigin(origin, config) ==
    LET normalizedOrigin == normalizeOrigin(origin)
    IN IF config.origin = OriginBool(TRUE) \/ config.origin = OriginStr(Star)
       THEN [allowed |-> TRUE, reason |-> "undefined", headers |-> [NoHeaders EXCEPT !.allowOrigin = Star]]
       ELSE IF config.origin.type = "string"
       THEN IF normalizedOrigin = normalizeOrigin(config.origin.val)
            THEN [allowed |-> TRUE, reason |-> "undefined",
                  headers |-> [NoHeaders EXCEPT !.allowOrigin = config.origin.val]]
            ELSE [allowed |-> FALSE, reason |-> "does not match configured origin", headers |-> NoHeaders]
       ELSE IF config.origin.type = "array"
       THEN IF \E i \in 1..Len(config.origin.list) : normalizeOrigin(config.origin.list[i]) = normalizedOrigin
            THEN [allowed |-> TRUE, reason |-> "undefined",
                  headers |-> [NoHeaders EXCEPT !.allowOrigin = origin]]
            ELSE [allowed |-> FALSE, reason |-> "not in the list of allowed origins", headers |-> NoHeaders]
       ELSE [allowed |-> FALSE, reason |-> "CORS is not configured", headers |-> NoHeaders]

\* mutant: a wildcard Allow-Origin does not revoke the decision
applyCredentialsKeepAllowed(r, config) ==
    IF config.credentials = "true"
    THEN IF r.headers.allowOrigin = Star
         THEN [r EXCEPT !.headers.allowCredentials = TrueStr]
         ELSE IF r.allowed THEN [r EXCEPT !.headers.allowCredentials = TrueStr] ELSE r
    ELSE r

\* testOrigin, "Add credentials header if configured"
applyCredentials(r, config) ==
    IF config.credentials = "true"
    THEN IF r.headers.allowOrigin = Star
         THEN [r EXCEPT !.allowed = FALSE, !.reason = "Cannot use wildcard origin (*) with credentials",
                        !.headers.allowCredentials = TrueStr]
         ELSE IF r.allowed THEN [r EXCEPT !.headers.allowCredentials = TrueStr] ELSE r
    ELSE r

NonEmptyList(list) == list # NoList /\ Len(list) > 0

\* testOrigin: the methods, allowed headers, exposed headers and max age headers
addConfiguredHeaders(r, config) ==
    [r EXCEPT !.headers.allowMethods = IF NonEmptyList(config.methods) THEN JoinComma(config.methods) ELSE @,
              !.headers.allowHeaders = IF NonEmptyList(config.allowedHeaders) THEN JoinComma(config.allowedHeaders) ELSE @,
              !.headers.exposeHeaders = IF NonEmptyList(config.exposedHeaders) THEN JoinComma(config.exposedHeaders) ELSE @,
              !.headers.maxAge = IF config.maxAge # Undefined THEN config.maxAge ELSE @]

\* mutant: the preflight verdict does not depend on the origin decision
preflightOfIgnoreAllowed(r, config) ==
    LET preflightRequired ==
            \/ config.methods # NoList /\ \E i \in 1..Len(config.methods) :
                   UpperTok(config.methods[i][1]) \notin {"GET", "HEAD", "POST"}
            \/ NonEmptyList(config.allowedHeaders)
    IN [required |-> preflightRequired,
        allowed |-> \/ ~preflightRequired
                    \/ r.headers.allowMethods # Undefined /\ r.headers.allowHeaders # Undefined]

\* testOrigin, "Determine if preflight is required and allowed"
preflightOf(r, config) ==
    LET preflightRequired ==
            \/ config.methods # NoList /\ \E i \in 1..Len(config.methods) :
                   UpperTok(config.methods[i][1]) \notin {"GET", "HEAD", "POST"}
            \/ NonEmptyList(config.allowedHeaders)
    IN [required |-> preflightRequired,
        allowed |-> /\ r.allowed
                    /\ \/ ~preflightRequired
                       \/ r.headers.allowMethods # Undefined /\ r.headers.allowHeaders # Undefined]

testOrigin(origin, config) ==
    LET r == addConfiguredHeaders(applyCredentials(resolveOrigin(origin, config), config), config)
    IN [allowed |-> r.allowed, reason |-> r.reason, headers |-> r.headers,
        preflight |-> preflightOf(r, config)]

TestedOrigins == {OriginA, OriginAUpper, OriginB, Star, EmptyStr}

TestConfigs ==
    {[origin |-> o, credentials |-> c, methods |-> m, allowedHeaders |-> a, exposedHeaders |-> e, maxAge |-> x] :
        o \in {OriginStr(Star), OriginStr(OriginA), OriginStr(OriginAUpper), OriginStr(EmptyStr),
               OriginBool(TRUE), OriginBool(FALSE), OriginArr(<<OriginAUpper, OriginB>>),
               OriginArr(<<>>), OriginArr(<<Star>>), OriginUndef},
        c \in {"true", "false", "undefined"},
        m \in {NoList, <<>>, << <<"GET">>, <<"POST">> >>, << <<"get">> >>, << <<"GET">>, <<"delete">> >>},
        a \in {NoList, <<>>, << <<"x-custom">> >>},
        e \in {NoList, << <<"X-Total">> >>},
        x \in {Undefined, <<"600">>}}

InitTestOrigin ==
    /\ MwIdle
    /\ BrowserIdle
    /\ pin \in {[origin |-> o, config |-> c] : o \in TestedOrigins, c \in TestConfigs}
    /\ pphase = "idle"
    /\ analysis = Returned(<<>>)
    /\ pattern = NoPattern
    /\ pout = NoResult

CallTestOrigin ==
    /\ pphase = "idle"
    /\ pphase' = "testOrigin"
    /\ pout' = testOrigin(pin.origin, pin.config)
    /\ UNCHANGED <<pin, analysis, pattern>>
    /\ UNCHANGED mwVars
    /\ UNCHANGED browserVars

NextTestOrigin == CallTestOrigin

SpecTestOrigin == InitTestOrigin /\ [][NextTestOrigin]_vars

(***************************************************************************)
(* compareConfiguration applied to two configurations.                     *)
(***************************************************************************)
\* the properties of a CorsConfiguration, in the order the objects list their keys
ConfigKeys == <<"origin", "methods", "allowedHeaders", "exposedHeaders", "credentials", "maxAge">>

\* a key the object does not have
Absent == [type |-> "absent", val |-> <<>>, list |-> <<>>]

NumberVal(n) == [type |-> "number", val |-> n, list |-> <<>>]

\* value === undefined: the key is absent or explicitly set to undefined
IsUndefined(value) == value.type \in {"absent", "undefined"}

\* key is among Object.keys(config)
HasKey(config, key) == config[key].type # "absent"

\* the strings that occur in array-valued properties, in UTF-16 code unit order
CodeUnitOrder ==
    << <<"DELETE">>, <<"GET">>, <<"POST">>, <<"X-Total">>, OriginA, OriginB, <<"x-custom">> >>

CodeUnitRank(str) == CHOOSE i \in 1..Len(CodeUnitOrder) : CodeUnitOrder[i] = str

RECURSIVE InsertByCodeUnit(_, _)
InsertByCodeUnit(sorted, x) ==
    IF Len(sorted) = 0 THEN <<x>>
    ELSE IF CodeUnitRank(sorted[Len(sorted)]) <= CodeUnitRank(x) THEN Append(sorted, x)
    ELSE Append(InsertByCodeUnit(SubSeq(sorted, 1, Len(sorted) - 1), x), sorted[Len(sorted)])

\* Array.prototype.sort() without a comparator
RECURSIVE SortByCodeUnit(_)
SortByCodeUnit(list) ==
    IF Len(list) = 0 THEN <<>>
    ELSE InsertByCodeUnit(SortByCodeUnit(SubSeq(list, 1, Len(list) - 1)), list[Len(list)])

\* normalize(value): an array is sorted in place and returned, anything else is returned
normalize(value) ==
    IF value.type = "array" THEN [value EXCEPT !.list = SortByCodeUnit(@)] ELSE value

\* isEqual(a, b)
isEqual(a, b) ==
    IF a.type = "array" /\ b.type = "array"
    THEN /\ Len(a.list) = Len(b.list)
         /\ SortByCodeUnit(a.list) = SortByCodeUnit(b.list)
    ELSE /\ ~IsUndefined(b)
         /\ a = b

\* mutant: a falsy current value counts as missing
isMissingFalsy(currentValue) ==
    \/ IsUndefined(currentValue)
    \/ currentValue = OriginBool(FALSE)
    \/ currentValue = OriginStr(EmptyStr)

\* currentValue === undefined
isMissing(currentValue) == IsUndefined(currentValue)

\* the else-if of the first loop is reached for key: normalize runs on both values
Normalized(current, expected, key) == HasKey(expected, key) /\ ~isMissing(current[key])

\* the configuration object after the call: the arrays normalize was applied to are sorted
AfterCompare(config, current, expected) ==
    [key \in DOMAIN config |->
        IF Normalized(current, expected, key) THEN normalize(config[key]) ELSE config[key]]

compareConfiguration(current, expected) ==
    LET currentAfter == AfterCompare(current, current, expected)
        expectedAfter == AfterCompare(expected, current, expected)
        missing == SelectSeq(ConfigKeys, LAMBDA key : HasKey(expected, key) /\ isMissing(current[key]))
        incorrectKeys ==
            SelectSeq(ConfigKeys,
                      LAMBDA key : /\ Normalized(current, expected, key)
                                   /\ ~isEqual(normalize(current[key]), normalize(expected[key])))
        incorrect ==
            [i \in 1..Len(incorrectKeys) |->
                [property |-> incorrectKeys[i],
                 current |-> currentAfter[incorrectKeys[i]],
                 expected |-> expectedAfter[incorrectKeys[i]]]]
        extra == SelectSeq(ConfigKeys, LAMBDA key : HasKey(current, key) /\ IsUndefined(expected[key]))
        summary ==
            IF Len(missing) = 0 /\ Len(incorrect) = 0 /\ Len(extra) = 0
            THEN <<"Configurations match perfectly.">>
            ELSE (IF Len(missing) > 0 THEN <<"Missing properties:">> \o missing ELSE <<>>)
                 \o (IF Len(incorrect) > 0 THEN <<"Incorrect values:">> \o incorrectKeys ELSE <<>>)
                 \o (IF Len(extra) > 0 THEN <<"Extra properties:">> \o extra ELSE <<>>)
    IN [diff |-> [missing |-> missing, incorrect |-> incorrect, extra |-> extra, summary |-> summary],
        current |-> currentAfter,
        expected |-> expectedAfter]

CompareConfigs ==
    {[origin |-> o, methods |-> m, allowedHeaders |-> a, exposedHeaders |-> Absent,
      credentials |-> c, maxAge |-> x] :
        o \in {OriginStr(Star), OriginBool(FALSE), OriginArr(<<OriginB, OriginA>>),
               OriginArr(<<OriginA, OriginB>>)},
        m \in {Absent, OriginUndef, OriginArr(<< <<"POST">>, <<"GET">> >>),
               OriginArr(<< <<"GET">>, <<"POST">> >>), OriginArr(<< <<"GET">>, <<"GET">>, <<"POST">> >>),
               OriginArr(<< <<"GET">>, <<"POST">>, <<"POST">> >>)},
        a \in {Absent, OriginArr(<< <<"x-custom">> >>)},
        c \in {Absent, OriginUndef, OriginBool(TRUE)},
        x \in {Absent, NumberVal(<<"600">>)}}

InitCompare ==
    /\ MwIdle
    /\ BrowserIdle
    /\ pin \in {[current |-> c, expected |-> e] : c \in CompareConfigs, e \in CompareConfigs}
    /\ pphase = "idle"
    /\ analysis = Returned(<<>>)
    /\ pattern = NoPattern
    /\ pout = NoResult

CallCompareConfiguration ==
    /\ pphase = "idle"
    /\ pphase' = "compareConfiguration"
    /\ pout' = compareConfiguration(pin.current, pin.expected)
    /\ UNCHANGED <<pin, analysis, pattern>>
    /\ UNCHANGED mwVars
    /\ UNCHANGED browserVars

NextCompare == CallCompareConfiguration

SpecCompare == InitCompare /\ [][NextCompare]_vars

(***************************************************************************)
(* normalizeOrigin applied to an origin string.                            *)
(***************************************************************************)
\* origin strings: optional leading blank, scheme, optional host and port, and a tail of
\* slashes and blanks
OriginStrings ==
    {lead \o <<scheme>> \o host \o port \o tail :
        lead \in {<<>>, <<" ">>},
        scheme \in {"https://", "HTTPS://", "http://"},
        host \in {<<>>, <<"a.com">>, <<"A.COM">>, <<"b.com">>},
        port \in {<<>>, <<":", "3000">>},
        tail \in {<<>>, <<"/">>, <<"/", "/">>, <<" ">>, <<"/", " ">>, <<" ", "/">>}}
    \cup {EmptyStr, <<"/">>, <<" ">>}

InitNormalize ==
    /\ MwIdle
    /\ BrowserIdle
    /\ pin \in OriginStrings
    /\ pphase = "idle"
    /\ analysis = Returned(<<>>)
    /\ pattern = NoPattern
    /\ pout = NoResult

\* normalizeOrigin(O), normalizeOrigin(O + "/") and normalizeOrigin(O.toUpperCase())
CallNormalizeOrigin ==
    /\ pphase = "idle"
    /\ pphase' = "normalizeOrigin"
    /\ pout' = [origin |-> normalizeOrigin(pin),
                withSlash |-> normalizeOrigin(pin \o <<"/">>),
                upperCased |-> normalizeOrigin(ToUpperCase(pin))]
    /\ UNCHANGED <<pin, analysis, pattern>>
    /\ UNCHANGED mwVars
    /\ UNCHANGED browserVars

NextNormalize == CallNormalizeOrigin

SpecNormalize == InitNormalize /\ [][NextNormalize]_vars

(***************************************************************************)
(* The browser listener on its own: the page loads the module (in a        *)
(* browser or under server-side rendering), then calls its exports while   *)
(* the window dispatches error events.                                     *)
(***************************************************************************)
InitBrowser ==
    /\ MwIdle
    /\ PureIdle
    /\ hasWindow \in BOOLEAN
    /\ windowListeners = <<>>
    /\ errorListener = NoListener
    /\ isListening = FALSE
    /\ corsErrorHistory = <<>>
    /\ handlerLog = <<>>
    /\ listenerEscaped = FALSE
    /\ consoleLast = "none"
    /\ dispatched = 0

NextBrowser ==
    \/ \E options \in ListenerOptions : ListenCorsErrors(options)
    \/ StopListening
    \/ \E event \in ErrorEvents, handlerThrows \in BOOLEAN : DispatchError(event, handlerThrows)
    \/ ClearCorsErrors

SpecBrowser == InitBrowser /\ [][NextBrowser]_vars

(***************************************************************************)
(* The ErrorHistory class on its own: one instance, and calls of add and   *)
(* clear with errors whose diagnosis lists are results of analyzeHeaders,  *)
(* reordered or with other severity, pattern and codeExample.              *)
(***************************************************************************)
\* the bound on the number of calls of add since construction or clear
MaxAdds == 4

\* the capacities an ErrorHistory is constructed with
LedgerSizes == {1, 2}

\* the same diagnoses with another severity, pattern and codeExample
Restyled(diagnoses) ==
    [i \in 1..Len(diagnoses) |->
        [diagnoses[i] EXCEPT !.severity = "info", !.pattern = "restyled", !.codeExample = Undefined]]

\* the array in the opposite order
Reversed(list) == [i \in 1..Len(list) |-> list[Len(list) + 1 - i]]

\* the diagnosis lists passed to add
LedgerDiagnoses ==
    LET missing == AnalysisOf["missing"].diagnoses
        wildcard == AnalysisOf["wildcard"].diagnoses
    IN {missing, Reversed(missing), Restyled(missing), wildcard, Reversed(wildcard)}

\* the argument of add, before its timestamp is taken
LedgerErrors ==
    {[timestamp |-> 0, route |-> "/r1", method |-> "GET", origin |-> OriginA, diagnoses |-> d] :
        d \in LedgerDiagnoses}

InitLedger ==
    /\ \E maxSize \in LedgerSizes : errorHistory = NewErrorHistory(maxSize)
    /\ middlewares = {}
    /\ cur = NoReq
    /\ nreq = 0
    /\ clock = 0
    /\ addLog = <<>>
    /\ lastLogged = NoLog
    /\ escaped = FALSE
    /\ nextCalls = 0
    /\ PureIdle
    /\ BrowserIdle

\* errorHistory.add(error) with timestamp new Date()
LedgerAdd(error) ==
    /\ Len(addLog) < MaxAdds
    /\ LET stamped == [error EXCEPT !.timestamp = clock]
       IN /\ errorHistory' = [errorHistory EXCEPT !.errors = add(@, errorHistory.maxSize, stamped)]
          /\ addLog' = Append(addLog, [error |-> stamped, securityChecks |-> TRUE])
    /\ UNCHANGED <<middlewares, cur, nreq, clock, lastLogged, escaped, nextCalls>>
    /\ UNCHANGED pureVars
    /\ UNCHANGED browserVars

\* errorHistory.clear()
LedgerClear ==
    /\ errorHistory.errors # <<>>
    /\ errorHistory' = [errorHistory EXCEPT !.errors = <<>>]
    /\ addLog' = <<>>
    /\ UNCHANGED <<middlewares, cur, nreq, clock, lastLogged, escaped, nextCalls>>
    /\ UNCHANGED pureVars
    /\ UNCHANGED browserVars

NextLedger ==
    \/ \E error \in LedgerErrors : LedgerAdd(error)
    \/ LedgerClear
    \/ Tick

SpecLedger == InitLedger /\ [][NextLedger]_vars

(***************************************************************************)
(* Properties.                                                             *)
(***************************************************************************)
\* the errors handed to ErrorHistory.add since the ledger was created or cleared
Added == [i \in 1..Len(addLog) |-> addLog[i].error]

AllSameError(list) == \A i \in 1..Len(list) : SameError(list[i], list[1])

PairwiseDistinct(list) == \A i, j \in 1..Len(list) : i # j => ~SameError(list[i], list[j])

\* C1: after N >= 1 additions that all have the same route, method, origin and
\* diagnoses, and no other addition, getErrorHistory returns exactly one entry and
\* its count is N.
C1_DedupCount ==
    (errorHistory.exists /\ Len(Added) >= 1 /\ AllSameError(Added))
        => (Len(getErrorHistory) = 1 /\ getErrorHistory[1].count = Len(Added))

C1_Witness ==
    /\ errorHistory.exists
    /\ Len(Added) = 3
    /\ AllSameError(Added)
    /\ getErrorHistory[1].count = 3

\* C2: the ledger never holds more than maxSize entries, and once more than maxSize
\* pairwise-distinct errors have been added (and nothing else), exactly maxSize entries
\* remain and the error added first is absent.
C2_Capacity ==
    /\ Len(errorHistory.errors) <= errorHistory.maxSize
    /\ (errorHistory.exists /\ PairwiseDistinct(Added) /\ Len(Added) > errorHistory.maxSize)
          => /\ Len(errorHistory.errors) = errorHistory.maxSize
             /\ \A i \in 1..Len(errorHistory.errors) : ~SameError(errorHistory.errors[i], Added[1])
    /\ (errorHistory.exists /\ \E S \in SUBSET (1..Len(Added)) :
            /\ Cardinality(S) > errorHistory.maxSize
            /\ \A i, j \in S : i # j => ~SameError(Added[i], Added[j]))
          => Len(errorHistory.errors) = errorHistory.maxSize

C2_Witness ==
    /\ errorHistory.exists
    /\ errorHistory.maxSize = 2
    /\ PairwiseDistinct(Added)
    /\ Len(Added) = 3
    /\ Len(errorHistory.errors) = 2

\* C3: for each request analyzeHeaders is invoked at most once and at most one ledger
\* add occurs, however many of res.send, res.json and 'finish' fire.
C3_AnalyzedOnce == cur.analyzeCalls <= 1 /\ cur.addCalls <= 1

C3_Witness ==
    /\ cur.active
    /\ cur.wrote
    /\ cur.finished
    /\ cur.analyzeCalls = 1
    /\ cur.addCalls = 1

\* C4: an exception raised inside performAnalysis (by analyzeHeaders, the logging or the
\* ledger add) never reaches the caller of res.send / res.json or the 'finish' listener,
\* and the original send / json is still invoked.
C4_NoEscape == ~escaped /\ (cur.wrote => cur.origInvoked)

C4_Witness ==
    /\ lastLogged.level = "console.error"
    /\ cur.wrote
    /\ cur.origInvoked
    /\ cur.finished

\* C5: analyzeHeaders never throws and always returns a list, for every request/response input.
C5_NeverThrows == (pphase = "analyzeHeaders") => ~analysis.threw

IsSortedNewestFirst(list) ==
    \A i, j \in 1..Len(list) : i < j => list[i].timestamp >= list[j].timestamp

\* C6: getErrorHistory returns the entries sorted by timestamp descending, also after a
\* repeat occurrence refreshed the timestamp of an older entry.
C6_NewestFirst == IsSortedNewestFirst(getErrorHistory)

C6_Witness ==
    /\ errorHistory.exists
    /\ ~IsSortedNewestFirst(errorHistory.errors)
    /\ \E i \in 1..Len(errorHistory.errors) : errorHistory.errors[i].count >= 2

\* C7: for every middleware created with enableHistory true and maxHistorySize M the
\* history never holds more than M entries.
C7_MaxHistorySizeRespected ==
    \A options \in middlewares :
        options.enableHistory => Len(getErrorHistory) <= options.maxHistorySize

SecurityTitles ==
    {"Wildcard Origin in Production", "Credentials with Wildcard Origin",
     "Sensitive Headers Exposed", "Potentially Unnecessary HTTP Methods Allowed"}

NoSecurityIssue(diagnoses) == \A i \in 1..Len(diagnoses) : diagnoses[i].issue \notin SecurityTitles

\* C8: with securityChecks false none of the diagnoses the middleware logs or stores is
\* an issue of the security rule set.
C8_SecurityChecksSkipped ==
    /\ ~lastLogged.securityChecks => NoSecurityIssue(lastLogged.diagnoses)
    /\ \A i \in 1..Len(addLog) : ~addLog[i].securityChecks => NoSecurityIssue(addLog[i].error.diagnoses)

\* the filtered diagnosis list of request r (empty when the analysis throws)
FilteredOf(r) == Filtered(r.opts.securityChecks, AnalysisOf[r.ex].diagnoses)

\* C9: every ledger entry has at least one diagnosis, and a step of a request whose
\* filtered diagnosis list is empty, or whose middleware has enableHistory false,
\* leaves the ledger unchanged.
C9_OnlyNonEmptyStored ==
    /\ [](\A i \in 1..Len(errorHistory.errors) : Len(errorHistory.errors[i].diagnoses) >= 1)
    /\ [][(cur' # cur /\ cur'.active /\ (~cur'.opts.enableHistory \/ Len(FilteredOf(cur')) = 0))
             => errorHistory' = errorHistory]_vars

C9_Witness ==
    /\ cur.active
    /\ cur.analyzed
    /\ cur.finished
    /\ Len(errorHistory.errors) >= 1
    /\ ~cur.opts.enableHistory
    /\ Len(FilteredOf(cur)) >= 1

MatchAt(i) == detector(PatternIds[i], pin.req, pin.res) = "true"

\* C10: detectPattern returns the first catalog entry, in declaration order, whose
\* detector returns true (a detector that throws is a non-match), and none exactly when
\* no detector matches.
C10_FirstMatch ==
    (pphase = "detectPattern") =>
        /\ (pattern = NoPattern) <=> (\A i \in 1..Len(PatternIds) : ~MatchAt(i))
        /\ (pattern # NoPattern) =>
              \E i \in 1..Len(PatternIds) :
                  /\ pattern = PatternIds[i]
                  /\ MatchAt(i)
                  /\ \A j \in 1..(i - 1) : ~MatchAt(j)

C10_Witness ==
    /\ pphase = "detectPattern"
    /\ detector("multiple-origins-misconfiguration", pin.req, pin.res) = "throw"
    /\ \E i \in 3..Len(PatternIds) : pattern = PatternIds[i] /\ MatchAt(i)

SomeIn(list, S) == list # NoList /\ \E i \in 1..Len(list) : Len(list[i]) = 1 /\ list[i][1] \in S

\* the rules of the security rule set that the configuration triggers
Triggered(config, environment) ==
    LET wildcard == \/ config.origin = OriginStr(Star)
                    \/ config.origin = OriginBool(TRUE)
                    \/ config.origin.type = "array" /\ Star \in {config.origin.list[i] : i \in 1..Len(config.origin.list)}
    IN [critical |-> wildcard /\ config.credentials = "true",
        wildcard |-> wildcard /\ environment = "production",
        sensitive |-> SomeIn(config.exposedHeaders, {"Authorization", "cookie"}),
        methods |-> SomeIn(config.methods, {"delete", "PUT", "PATCH"})]

\* the issues expected for a set of triggered rules, as <<level, title>> pairs
ExpectedIssues(t) ==
    (IF t.critical THEN << <<"critical", "Credentials with Wildcard Origin">> >> ELSE <<>>)
    \o (IF t.wildcard THEN << <<"warning", "Wildcard Origin in Production">> >> ELSE <<>>)
    \o (IF t.sensitive THEN << <<"warning", "Sensitive Headers Exposed">> >> ELSE <<>>)
    \o (IF t.methods THEN << <<"info", "Potentially Unnecessary HTTP Methods Allowed">> >> ELSE <<>>)

\* C11: checkSecurity returns one issue per triggered rule, sorted by severity
\* (critical, warning, info) with the rule order kept among the two warnings: all four
\* rules give critical, warning (wildcard), warning (sensitive headers), info, and no
\* triggered rule gives the empty list.
C11_SortedBySeverity ==
    (pphase = "checkSecurity") =>
        [i \in 1..Len(pout) |-> <<pout[i].level, pout[i].title>>]
            = ExpectedIssues(Triggered(pin.config, pin.environment))

C11_Witness ==
    /\ pphase = "checkSecurity"
    /\ Len(pout) = 4
    /\ pout[1].level = "critical"
    /\ pout[2].title = "Wildcard Origin in Production"
    /\ pout[3].title = "Sensitive Headers Exposed"
    /\ pout[4].level = "info"

WildcardConfigured(config) == config.origin = OriginStr(Star) \/ config.origin = OriginBool(TRUE)

\* C12: testOrigin with config.origin "*" or true and credentials true returns
\* allowed = false for every tested origin.
C12_WildcardCredentialsBlocked ==
    (pphase = "testOrigin" /\ WildcardConfigured(pin.config) /\ pin.config.credentials = "true")
        => ~pout.allowed

C12_Witness ==
    /\ pphase = "testOrigin"
    /\ pin.config.origin = OriginBool(TRUE)
    /\ pin.config.credentials = "true"
    /\ pin.origin = OriginA
    /\ ~pout.allowed
    /\ pout.headers.allowOrigin = Star

\* the tested origin equals a configured origin up to surrounding blanks, letter case
\* and one trailing slash
SameOrigin(a, b) == normalizeOrigin(a) = normalizeOrigin(b)

\* C13: without credentials, testOrigin allows the origin iff config.origin is true or
\* "*" (Allow-Origin "*"), or a string equal to the tested origin after normalization
\* (Allow-Origin is the configured string as written), or an array with a normalized
\* match (Allow-Origin is the tested origin as passed in); otherwise allowed is false,
\* a reason is given and there is no Allow-Origin header.
C13_OriginResolution ==
    (pphase = "testOrigin" /\ pin.config.credentials # "true") =>
        LET o == pin.config.origin
            expected ==
                IF WildcardConfigured(pin.config) THEN Star
                ELSE IF o.type = "string" /\ SameOrigin(o.val, pin.origin) THEN o.val
                ELSE IF o.type = "array" /\ \E i \in 1..Len(o.list) : SameOrigin(o.list[i], pin.origin)
                     THEN pin.origin
                ELSE Undefined
        IN /\ pout.headers.allowOrigin = expected
           /\ pout.allowed <=> (expected # Undefined)
           /\ ~pout.allowed => pout.reason # "undefined"

C13_Witness ==
    /\ pphase = "testOrigin"
    /\ pin.config.credentials = "undefined"
    /\ pin.config.origin = OriginStr(OriginAUpper)
    /\ pin.origin = OriginA
    /\ pout.allowed
    /\ pout.headers.allowOrigin = OriginAUpper

\* C14: testOrigin adds Access-Control-Allow-Credentials only when config.credentials
\* is true, the resolved Allow-Origin is not "*" and the origin is still allowed; a
\* result with allowed = false never carries the header.
C14_CredentialsHeader ==
    (pphase = "testOrigin" /\ pout.headers.allowCredentials # Undefined) =>
        /\ pin.config.credentials = "true"
        /\ pout.headers.allowOrigin # Star
        /\ pout.allowed

SimpleVerbs == {"GET", "get", "HEAD", "POST", "post"}

\* C15: preflight.required is true iff methods contains a verb outside {GET, HEAD, POST}
\* (case-insensitive) or allowedHeaders is non-empty, and preflight.allowed is true iff
\* allowed is true and (preflight is not required or both an Allow-Methods and an
\* Allow-Headers header were produced); hence preflight.allowed implies allowed.
C15_Preflight ==
    (pphase = "testOrigin") =>
        LET methods == IF pin.config.methods = NoList THEN <<>> ELSE pin.config.methods
            headersListed == pin.config.allowedHeaders # NoList /\ Len(pin.config.allowedHeaders) > 0
        IN /\ pout.preflight.required <=>
                  ((\E i \in 1..Len(methods) : methods[i][1] \notin SimpleVerbs) \/ headersListed)
           /\ pout.preflight.allowed <=>
                  /\ pout.allowed
                  /\ \/ ~pout.preflight.required
                     \/ pout.headers.allowMethods # Undefined /\ pout.headers.allowHeaders # Undefined
           /\ pout.preflight.allowed => pout.allowed

C15_Witness ==
    /\ pphase = "testOrigin"
    /\ pout.allowed
    /\ pout.preflight.required
    /\ ~pout.preflight.allowed
    /\ pout.headers.allowMethods # Undefined

\* every key of the configuration is absent or has a value
AllDefined(config) == \A key \in DOMAIN config : config[key].type # "undefined"

EmptyDiff(diff) ==
    /\ diff.missing = <<>>
    /\ diff.incorrect = <<>>
    /\ diff.extra = <<>>
    /\ diff.summary = <<"Configurations match perfectly.">>

C17_NoSideEffects ==
    (pphase = "compareConfiguration") =>
        /\ pout.current = pin.current
        /\ pout.expected = pin.expected
        /\ \A i \in 1..Len(pout.diff.incorrect) :
              LET item == pout.diff.incorrect[i]
              IN item.current = pin.current[item.property] /\ item.expected = pin.expected[item.property]

Elements(list) == {list[i] : i \in 1..Len(list)}

RECURSIVE Reverse(_)
Reverse(list) == IF Len(list) = 0 THEN <<>> ELSE Append(Reverse(Tail(list)), list[1])

ReverseArrays(config) ==
    [key \in DOMAIN config |->
        IF config[key].type = "array" THEN [config[key] EXCEPT !.list = Reverse(@)] ELSE config[key]]

IncorrectProperties(diff) == {diff.incorrect[i].property : i \in 1..Len(diff.incorrect)}

\* C18: an array-valued property is reported in incorrect iff the current and expected
\* arrays differ in length or in their set of elements, and the order of the elements
\* in either array never changes the diff.
C18_ArraysAsSets ==
    (pphase = "compareConfiguration") =>
        /\ \A key \in DOMAIN pin.current :
              (pin.current[key].type = "array" /\ pin.expected[key].type = "array") =>
                  ((key \in IncorrectProperties(pout.diff)) <=>
                      \/ Len(pin.current[key].list) # Len(pin.expected[key].list)
                      \/ Elements(pin.current[key].list) # Elements(pin.expected[key].list))
        /\ pout.diff = compareConfiguration(ReverseArrays(pin.current), pin.expected).diff
        /\ pout.diff = compareConfiguration(pin.current, ReverseArrays(pin.expected)).diff

\* the configuration without its keys whose value is undefined
DropUndefined(config) ==
    [key \in DOMAIN config |-> IF config[key].type = "undefined" THEN Absent ELSE config[key]]

SameBuckets(d1, d2) ==
    /\ d1.missing = d2.missing
    /\ d1.incorrect = d2.incorrect
    /\ d1.extra = d2.extra

\* C19: a property explicitly set to undefined is treated like an absent key: removing
\* such keys from current or from expected never changes missing, incorrect or extra,
\* and no property name appears in more than one of the three buckets.
C19_UndefinedIsAbsent ==
    (pphase = "compareConfiguration") =>
        /\ SameBuckets(pout.diff, compareConfiguration(DropUndefined(pin.current), pin.expected).diff)
        /\ SameBuckets(pout.diff, compareConfiguration(pin.current, DropUndefined(pin.expected)).diff)
        /\ Elements(pout.diff.missing) \cap IncorrectProperties(pout.diff) = {}
        /\ Elements(pout.diff.missing) \cap Elements(pout.diff.extra) = {}
        /\ IncorrectProperties(pout.diff) \cap Elements(pout.diff.extra) = {}

\* C20: for every origin string O, also one that ends with "/" or with whitespace,
\* normalizeOrigin(O + "/") = normalizeOrigin(O) and
\* normalizeOrigin(O) = normalizeOrigin(O.toUpperCase()).
C20_SlashAndCaseIgnored ==
    (pphase = "normalizeOrigin") =>
        /\ pout.withSlash = pout.origin
        /\ pout.upperCased = pout.origin


(***************************************************************************)
(* The browser listener.                                                   *)
(***************************************************************************)
\* the listeners registered on the window agree with the module state
Registered ==
    /\ Len(windowListeners) <= 1
    /\ isListening <=> Len(windowListeners) = 1
    /\ isListening <=> errorListener.set

\* a call of listenCorsErrors while a listener is active registers nothing and warns
ListenWhileActive ==
    \A options \in ListenerOptions :
        (hasWindow /\ isListening /\ ListenCorsErrors(options)) =>
            /\ consoleLast' = "already-active"
            /\ UNCHANGED <<windowListeners, errorListener, isListening, corsErrorHistory, handlerLog>>

\* an event dispatched while no listener is active is not captured
NotCapturedWhenStopped ==
    (~isListening /\ dispatched' = dispatched + 1) => UNCHANGED <<corsErrorHistory, handlerLog>>

\* a call of stopListening without an active listener changes nothing
StopWhenStopped ==
    (~isListening /\ StopListening) =>
        /\ consoleLast' = "none"
        /\ UNCHANGED <<windowListeners, errorListener, isListening, corsErrorHistory, handlerLog>>

\* C21: at most one error listener is registered on the window, isListening is true exactly
\* when one is registered, listenCorsErrors while active registers nothing and only warns,
\* no dispatched error is captured while stopped, and stopListening while stopped changes nothing
C21_Lifecycle ==
    /\ []Registered
    /\ [][ListenWhileActive /\ NotCapturedWhenStopped /\ StopWhenStopped]_vars

\* a second listenCorsErrors was refused while the first listener stayed registered
C21_Witness ==
    /\ isListening
    /\ Len(windowListeners) = 1
    /\ consoleLast = "already-active"

\* a capacity below the number of events the window dispatches
HistoryCapacity == MaxEvents - 1

\* C22: the length of the browser listener history never exceeds a fixed capacity
C22_Bounded == Len(corsErrorHistory) <= HistoryCapacity

\* the texts of ErrorEvents that contain cors, cross-origin or blocked in some letter case
RelevantTexts ==
    { <<"Access", " ", "Blocked", " ", "by", " ", "CORS", " ", "policy">>,
      <<"Cross-Origin", " ", "preflight", " ", "failed">>,
      <<"Unblocked">> }

\* the text the listener reads from an event
TextOf(event) == IF event.message = EmptyStr THEN event.error ELSE event.message

\* what one dispatched event does to the history and to the custom handler
CapturedOnce(event) ==
    IF TextOf(event) \in RelevantTexts
    THEN /\ Len(corsErrorHistory') = Len(corsErrorHistory) + 1
         /\ SubSeq(corsErrorHistory', 1, Len(corsErrorHistory)) = corsErrorHistory
         /\ corsErrorHistory'[Len(corsErrorHistory')].message = TextOf(event)
         /\ corsErrorHistory'[Len(corsErrorHistory')].timestamp = dispatched'
         /\ IF errorListener.customHandler = "handler"
            THEN handlerLog' = Append(handlerLog, corsErrorHistory'[Len(corsErrorHistory')])
            ELSE handlerLog' = handlerLog
    ELSE UNCHANGED <<corsErrorHistory, handlerLog>>

\* C23: while listening, an event whose text contains cors, cross-origin or blocked appends
\* exactly one record and the custom handler is called exactly once with that record; an
\* exception of the handler does not leave the listener and the record stays; any other
\* event appends nothing and calls no handler
C23_Captured ==
    [][(isListening /\ dispatched' = dispatched + 1) =>
          \A event \in ErrorEvents, handlerThrows \in BOOLEAN :
              DispatchError(event, handlerThrows) => CapturedOnce(event) /\ ~listenerEscaped']_vars

\* the handler threw on the record just appended, and the record is still there
C23_Witness ==
    /\ consoleLast = "handler-error"
    /\ ~listenerEscaped
    /\ corsErrorHistory # <<>>
    /\ handlerLog # <<>>
    /\ handlerLog[Len(handlerLog)] = corsErrorHistory[Len(corsErrorHistory)]


(***************************************************************************)
(* The order and the pattern diagnosis of analyzeHeaders.                  *)
(***************************************************************************)
\* no critical diagnosis stands after a warning or an info diagnosis
CriticalFirst(diagnoses) ==
    \A i, j \in 1..Len(diagnoses) :
        (i < j /\ diagnoses[j].severity = "critical") => diagnoses[i].severity = "critical"

\* C24: in every list analyzeHeaders returns no critical diagnosis appears after a warning
\* or an info diagnosis
C24_CriticalFirst ==
    (pphase = "analyzeHeaders" /\ ~analysis.threw) => CriticalFirst(analysis.diagnoses)

\* the security issues put a critical diagnosis in front of a warning
C24_Witness ==
    /\ pphase = "analyzeHeaders"
    /\ ~analysis.threw
    /\ \E i, j \in 1..Len(analysis.diagnoses) :
          /\ i < j
          /\ analysis.diagnoses[i].issue = "Credentials with Wildcard Origin"
          /\ analysis.diagnoses[j].severity = "warning"

\* the positions of the diagnoses taken from the Pattern Catalog
CatalogDerived(diagnoses) ==
    {i \in 1..Len(diagnoses) : diagnoses[i].severity = "warning" /\ diagnoses[i].pattern # "undefined"}

\* the pattern ids carried by the diagnoses of the ad hoc checks
AdHocPatterns(diagnoses) ==
    {diagnoses[i].pattern : i \in {k \in 1..Len(diagnoses) :
        /\ diagnoses[k].severity = "critical"
        /\ diagnoses[k].codeExample # Undefined
        /\ diagnoses[k].pattern # "undefined"}}

\* C25: analyzeHeaders appends the catalog match as a warning exactly when detectPattern
\* returns a match whose id no ad hoc diagnosis carries; at most one diagnosis comes from the
\* catalog and no two diagnoses carry the same pattern id
C25_PatternAppended ==
    (pphase = "analyzeHeaders" /\ ~analysis.threw) =>
        LET diagnoses == analysis.diagnoses
            match == detectPattern(pin.req, pin.res)
        IN /\ (CatalogDerived(diagnoses) # {}) <=>
                  (match # NoPattern /\ match \notin AdHocPatterns(diagnoses))
           /\ \A i \in CatalogDerived(diagnoses) : diagnoses[i].pattern = match
           /\ Cardinality(CatalogDerived(diagnoses)) <= 1
           /\ \A i, j \in 1..Len(diagnoses) :
                  (i # j /\ diagnoses[i].pattern # "undefined") =>
                      diagnoses[i].pattern # diagnoses[j].pattern

\* the catalog matched a pattern an ad hoc diagnosis already carries, and nothing was appended
C25_Witness ==
    /\ pphase = "analyzeHeaders"
    /\ ~analysis.threw
    /\ detectPattern(pin.req, pin.res) \in AdHocPatterns(analysis.diagnoses)
    /\ CatalogDerived(analysis.diagnoses) = {}

\* the position of an entry in the catalog
IndexOf(id) == CHOOSE i \in 1..Len(PatternIds) : PatternIds[i] = id

\* whenever the trigger of the later entry holds, the trigger of the earlier one holds and
\* the scan stops at the earlier entry or before it
ShadowedBy(later, earlier) ==
    MatchAt(IndexOf(later)) =>
        /\ IndexOf(earlier) < IndexOf(later)
        /\ MatchAt(IndexOf(earlier))
        /\ \E i \in 1..IndexOf(earlier) : pattern = PatternIds[i]

\* C28: detectPattern never returns missing-allow-headers or missing-allow-methods, because
\* custom-headers-not-allowed, respectively preflight-only-failure, stands earlier in the
\* catalog and its trigger holds whenever theirs does
C28_Shadowed ==
    (pphase = "detectPattern") =>
        /\ pattern \notin {"missing-allow-headers", "missing-allow-methods"}
        /\ ShadowedBy("missing-allow-headers", "custom-headers-not-allowed")
        /\ ShadowedBy("missing-allow-methods", "preflight-only-failure")

\* the trigger of missing-allow-headers held and custom-headers-not-allowed was returned
C28_Witness ==
    /\ pphase = "detectPattern"
    /\ MatchAt(IndexOf("missing-allow-headers"))
    /\ pattern = "custom-headers-not-allowed"


(***************************************************************************)
(* The order of eviction and the equality of the ledger.                   *)
(***************************************************************************)
\* a queue in insertion order, oldest first: a repeat occurrence stays where it is, a new
\* error joins at the end and, beyond the capacity, the head leaves
RECURSIVE InsertionQueue(_, _)
InsertionQueue(n, maxSize) ==
    IF n = 0 THEN <<>>
    ELSE LET before == InsertionQueue(n - 1, maxSize)
             error == addLog[n].error
         IN IF \E i \in 1..Len(before) : SameError(before[i], error)
            THEN [i \in 1..Len(before) |->
                    IF SameError(before[i], error)
                    THEN [before[i] EXCEPT !.count = @ + 1, !.timestamp = error.timestamp]
                    ELSE before[i]]
            ELSE LET joined == Append(before, [timestamp |-> error.timestamp, route |-> error.route,
                                               method |-> error.method, origin |-> error.origin,
                                               diagnoses |-> error.diagnoses, count |-> 1])
                 IN IF Len(joined) > maxSize THEN Tail(joined) ELSE joined

\* C26: the ledger is a queue in order of first insertion: a repeat occurrence refreshes the
\* timestamp and increments the count without moving the entry, and an overflow removes the
\* entry inserted earliest, however recently it was refreshed
C26_InsertionOrder ==
    Reversed(errorHistory.errors) = InsertionQueue(Len(addLog), errorHistory.maxSize)

\* of two entries the earlier one was refreshed last, and the next new error removed it
C26_Witness ==
    /\ errorHistory.maxSize = 2
    /\ Len(addLog) = 4
    /\ SameError(addLog[1].error, addLog[3].error)
    /\ ~SameError(addLog[1].error, addLog[2].error)
    /\ ~SameError(addLog[4].error, addLog[1].error)
    /\ ~SameError(addLog[4].error, addLog[2].error)
    /\ addLog[3].error.timestamp > addLog[2].error.timestamp
    /\ Len(errorHistory.errors) = 2
    /\ SameError(errorHistory.errors[2], addLog[2].error)
    /\ SameError(errorHistory.errors[1], addLog[4].error)

\* the issue, description and recommendation of each diagnosis, as a bag
Triples(diagnoses) ==
    LET triple(d) == <<d.issue, d.description, d.recommendation>>
        all == {triple(diagnoses[i]) : i \in 1..Len(diagnoses)}
    IN [t \in all |-> Cardinality({i \in 1..Len(diagnoses) : triple(diagnoses[i]) = t})]

C29_FinishedAnalyzed == cur.finished => (cur.analyzed /\ cur.analyzeCalls = 1)

\* the response finished without res.send or res.json, and the request was analyzed once
C29_Witness ==
    /\ cur.active
    /\ cur.finished
    /\ ~cur.wrote
    /\ cur.analyzeCalls = 1

\* C30: corsMiddleware calls next() exactly once for every request it is invoked with
C30_NextOnce == [][(nreq' = nreq + 1) => nextCalls' = 1]_vars

====
